---- MODULE Spec2Model ----
(***************************************************************************)
(* Model of tracey: the daemon engine (crates/tracey/src/daemon/engine.rs), *)
(* the reference extractor (src/lexer.rs) and the coverage report          *)
(* (src/coverage.rs).                                                      *)
(*                                                                         *)
(* Each task is one caller of the Engine's async methods.  A method is     *)
(* split at its await points: every step below is the code between two     *)
(* awaits, so the interleavings of the steps are the interleavings the     *)
(* tokio runtime can produce for concurrent callers of one Engine.         *)
(* The extractor and the coverage report are pure functions: they are      *)
(* operators, applied by one action each to inputs drawn from bounded sets.*)
(***************************************************************************)
EXTENDS Integers, Sequences, FiniteSets, TLC

\* ---------------------------------------------------------------- bounds
NumTasks == 2
MaxVersion == 3
MaxConfig == 1
MaxContent == 2
NumPaths == 1
\* longest body of a single bracket, longest body of a bracket without a
\* reference, number of rule ids and longest reference list handed to compute
MaxIdLen == 4
MaxJunkLen == 1
NumRuleIds == 3
MaxRefs == 2
\* most specs a config names
MaxSpecs == 2
\* rule ids of spec documents, most definitions of a document, most documents
NumDocIds == 2
MaxDefs == 2
MaxDocs == 2
\* lines of the file an at query is about
MaxLine == 3
\* lines of a file of several comments
MaxLines == 3
\* pieces of a relative path
MaxPieces == 3
\* files of a scanned tree, patterns of an include or exclude list
MaxFiles == 2
MaxPatterns == 1

Tasks == 1..NumTasks
\* Config values; 0 is Config::default()
Configs == 0..MaxConfig
DefaultConfig == 0
NoConfig == -1
Paths == 1..NumPaths
\* file contents an editor can hold; Absent marks a path without an entry
Contents == 1..MaxContent
Absent == 0

\* FileOverlay::new()
EmptyOverlay == [p \in Paths |-> Absent]

\* Option<String> of the config error: "none" is None
ConfigErrors == {"none", "has_errors", "not_readable", "deprecated"}

\* outcome of read_to_string(config_path) followed by facet_styx::from_str
NoOutcome == <<"none", NoConfig>>
NotFound == <<"not_found", NoConfig>>
Malformed == <<"malformed", NoConfig>>
Unreadable == <<"unreadable", NoConfig>>
Parsed(c) == <<"parsed", c>>
Outcomes == {Parsed(c) : c \in Configs} \cup {NotFound, Malformed, Unreadable}

VfsCallers == {"vfs_open", "vfs_change", "vfs_close"}

\* values a call hands back to its caller
RetNone == <<"none", 0>>
RetUnit == <<"unit", 0>>
RetErr == <<"err", 0>>
RetOk(v) == <<"ok", v>>
RetData(h) == <<"data", h>>

\* a call that is not a vfs_* call, or one whose arguments were consumed
NoVfsArgs == <<0, Absent>>

VARIABLES
    heap,          \* the Arc<DashboardData> allocations, by handle
    data,          \* Engine.data: the handle in the canonical slot
    dataWriter,    \* task holding the write side of Engine.data's RwLock, 0 if none
    update_tx,     \* Engine.update_tx: the handle last sent on the watch channel
    vfs,           \* Engine.vfs: the FileOverlay
    config,        \* Engine.config
    config_error,  \* Engine.config_error
    version,       \* Engine.version
    pc,            \* per task: position in the method it is running
    caller,        \* per task: the method it called
    vfs_args,      \* per task: the (path, content) its vfs_* call was given
    before,        \* per task: <<version, data>> seen when rebuild() was entered
    lout,          \* per task: rebuild's outcome of reading the config file
    lcfg,          \* per task: rebuild's local `config`
    lov,           \* per task: rebuild's local `overlay`
    lver,          \* per task: rebuild's local `new_version`
    lnew,          \* per task: rebuild's local `new_data` (a handle)
    ret,           \* per task: the value its last finished call returned
    engine,        \* Engine::new: "pending", "running" (Ok) or "failed" (Err)
    new_args,      \* Engine::new: what it finds on disk and how its build ends
    phase,         \* position of the one-shot run: which function is applied next
    lines,         \* extract_rule_references: content.lines()
    references,    \* the Vec<RuleReference> extracted, and handed to compute
    manifest,      \* SpecManifest.rules: the rule ids of the spec
    report,        \* the CoverageReport compute returned
    threshold,     \* main: args.threshold.unwrap_or(0.0)
    check,         \* main: args.check
    all_passing,   \* main: the flag its loop over config.specs keeps
    pending,       \* main: how many of config.specs the loop has yet to start
    printed,       \* main: the summary print_report wrote for the spec at hand
    passing,       \* main: what the last is_passing call returned, <<>> before it
    exit_code,     \* main: the status the process ended with, NoExit while it runs
    docs,          \* rules command: the spec documents named on the command line
    loaded,        \* rules command: the Result of loading them, <<>> before
    location,      \* at command: the location asked for
    found,         \* at command: the references it returned
    relative_str,  \* is_included: the path relative to the root
    glob_pattern,  \* is_included: the pattern it is matched against
    matched,       \* matches_glob: what it returned, <<>> before the call
    tree,          \* scan_directory: the files below the root, as path components
    include_patterns,  \* scan_directory's argument, or spec_config.include
    exclude_patterns,  \* scan_directory's argument, or spec_config.exclude
    scanned        \* scan_directory: the files it extracted references from

shared == <<heap, data, dataWriter, update_tx, vfs, config, config_error, version>>
vars == <<heap, data, dataWriter, update_tx, vfs, config, config_error, version,
          pc, caller, vfs_args, before, lout, lcfg, lov, lver, lnew, ret,
          engine, new_args, phase, lines, references, manifest, report,
          threshold, check, all_passing, pending, printed, passing, exit_code,
          docs, loaded, location, found, relative_str, glob_pattern, matched,
          tree, include_patterns, exclude_patterns, scanned>>

\* what main keeps besides the manifest, the references and the report
mainvars == <<threshold, check, all_passing, pending, printed, passing, exit_code>>
\* the one-shot run's variables, which the daemon does not have
\* arguments and results of the functions a run applies on their own
scanvars == <<tree, include_patterns, exclude_patterns, scanned>>
pure == <<docs, loaded, location, found, relative_str, glob_pattern, matched, scanvars>>
oneshot == <<phase, lines, references, manifest, report, mainvars, pure>>
\* what no method of a running engine touches
outside == <<engine, new_args, phase, lines, references, manifest, report, mainvars,
             pure>>

\* ------------------------------------------------------- pure operators

\* build_dashboard_data_with_overlay on success: the snapshot is a function
\* of the config, the version tag and the overlay laid over the disk tree
BuildDashboardData(cfg, v, overlay) ==
    [version |-> v, config |-> cfg, overlay |-> overlay]

\* rebuild's first match: the Option<String> of the outcome
NewConfigError(outcome) ==
    CASE outcome[1] = "malformed" -> "has_errors"
      [] outcome[1] = "unreadable" -> "not_readable"
      [] OTHER -> "none"

\* ChooseConfig with a deleted config file treated like an unreadable one
ChooseConfigKeepOnMissing(outcome, stored) ==
    CASE outcome[1] = "parsed" -> outcome[2]
      [] OTHER -> stored

\* rebuild's first and second match: the config the pipeline will use
ChooseConfig(outcome, stored) ==
    CASE outcome[1] = "parsed" -> outcome[2]
      [] outcome[1] = "not_found" -> DefaultConfig
      [] OTHER -> stored

\* InitialConfig with the deprecated check consulted only when the config file
\* gives no config
InitialConfigParsedFirst(deprecated, outcome) ==
    CASE outcome[1] = "parsed" -> <<outcome[2], "none">>
      [] deprecated -> <<DefaultConfig, "deprecated">>
      [] outcome[1] = "malformed" -> <<DefaultConfig, "has_errors">>
      [] outcome[1] = "not_found" -> <<DefaultConfig, "none">>
      [] OTHER -> <<DefaultConfig, "not_readable">>

\* Engine::new's (config, config_error) for an outcome and the deprecated check
InitialConfig(deprecated, outcome) ==
    IF deprecated THEN <<DefaultConfig, "deprecated">>
    ELSE CASE outcome[1] = "parsed" -> <<outcome[2], "none">>
           [] outcome[1] = "malformed" -> <<DefaultConfig, "has_errors">>
           [] outcome[1] = "not_found" -> <<DefaultConfig, "none">>
           [] OTHER -> <<DefaultConfig, "not_readable">>

\* tasks that have entered rebuild() (or are about to) and not yet taken a version
PreFetchPcs == {"vfs", "read_config", "set_error", "clone_overlay", "fetch_add"}
Pending == Cardinality({u \in Tasks : pc[u] \in PreFetchPcs})

\* the model stops issuing rebuilds once the counter would pass MaxVersion
Budget == version + Pending < MaxVersion

\* what Engine::new meets: the deprecated check's result, the outcome of
\* reading the config file, and how its build ends
NewArgs == [deprecated : BOOLEAN, outcome : Outcomes, build : {"ok", "err"}]
\* the arguments once Engine::new has consumed them
NoArgs == [deprecated |-> FALSE, outcome |-> NoOutcome, build |-> "none"]
\* what is left once Engine::new has run: a deprecated config file stays on disk
Consumed(deprecated) == [NoArgs EXCEPT !.deprecated = deprecated]

\* ------------------------------------------------------------------ Init

\* the process has not ended
NoExit == -1

\* f64 values, kept exact as <<numerator, denominator>> with a positive
\* denominator; for the manifests within the bounds the f64 quotient and
\* product round to the same side of every threshold of Thresholds
F64(n) == <<n, 1>>
F64Div(a, b) == <<a[1] * b[2], a[2] * b[1]>>
F64Mul(a, b) == <<a[1] * b[1], a[2] * b[2]>>
F64Ge(a, b) == a[1] * b[2] >= b[1] * a[2]
F64Eq(a, b) == a[1] * b[2] = b[1] * a[2]

\* main's state when no coverage run was asked for: the defaults of Args
NoMain ==
    /\ threshold = F64(0)
    /\ check = FALSE
    /\ all_passing = TRUE
    /\ pending = 0
    /\ printed = <<>>
    /\ passing = <<>>
    /\ exit_code = NoExit

\* no spec documents were given
NoRules ==
    /\ docs = <<>>
    /\ loaded = <<>>

\* a location without a line: the whole file
NoLocation == <<"file", 0, 0>>

\* no location was asked for
NoAt ==
    /\ location = NoLocation
    /\ found = <<>>

\* no path is matched against a pattern
NoGlob ==
    /\ relative_str = <<>>
    /\ glob_pattern = <<>>
    /\ matched = <<>>

\* no directory is scanned
NoScan ==
    /\ tree = {}
    /\ include_patterns = <<>>
    /\ exclude_patterns = <<>>
    /\ scanned = {}

NoPure == NoRules /\ NoAt /\ NoGlob /\ NoScan

\* the one-shot run is not part of the daemon
NoOneShot ==
    /\ phase = "none"
    /\ lines = <<>>
    /\ references = <<>>
    /\ manifest = {}
    /\ report = <<>>
    /\ NoMain
    /\ NoPure

\* no Engine value exists: nothing to call, nothing published
NoEngine ==
    /\ heap = <<>>
    /\ data = 0
    /\ dataWriter = 0
    /\ update_tx = 0
    /\ vfs = EmptyOverlay
    /\ config = NoConfig
    /\ config_error = "none"
    /\ version = 0
    /\ pc = [t \in Tasks |-> "unborn"]
    /\ caller = [t \in Tasks |-> "none"]
    /\ vfs_args = [t \in Tasks |-> NoVfsArgs]
    /\ before = [t \in Tasks |-> <<0, 0>>]
    /\ lout = [t \in Tasks |-> NoOutcome]
    /\ lcfg = [t \in Tasks |-> NoConfig]
    /\ lov = [t \in Tasks |-> EmptyOverlay]
    /\ lver = [t \in Tasks |-> 0]
    /\ lnew = [t \in Tasks |-> 0]
    /\ ret = [t \in Tasks |-> RetNone]

\* the state Engine::new returns: one build, version 1, empty overlay
Init ==
    \E deprecated \in BOOLEAN, outcome \in Outcomes :
        /\ config = InitialConfig(deprecated, outcome)[1]
        /\ config_error = InitialConfig(deprecated, outcome)[2]
        /\ heap = <<BuildDashboardData(config, 1, EmptyOverlay)>>
        /\ data = 1
        /\ dataWriter = 0
        /\ update_tx = 1
        /\ vfs = EmptyOverlay
        /\ version = 1
        /\ pc = [t \in Tasks |-> "idle"]
        /\ caller = [t \in Tasks |-> "none"]
        /\ vfs_args = [t \in Tasks |-> NoVfsArgs]
        /\ before = [t \in Tasks |-> <<0, 0>>]
        /\ lout = [t \in Tasks |-> NoOutcome]
        /\ lcfg = [t \in Tasks |-> NoConfig]
        /\ lov = [t \in Tasks |-> EmptyOverlay]
        /\ lver = [t \in Tasks |-> 0]
        /\ lnew = [t \in Tasks |-> 0]
        /\ ret = [t \in Tasks |-> RetNone]
        /\ engine = "running"
        /\ new_args = Consumed(deprecated)
        /\ NoOneShot

\* the state before Engine::new is called
NewInit ==
    /\ engine = "pending"
    /\ new_args \in NewArgs
    /\ NoEngine
    /\ NoOneShot

\* --------------------------------------------------------------- actions

\* Engine::new: pick the initial config, build once with version 1 and an empty
\* overlay; `?` hands a build failure to the caller and no Engine is made
EngineNew ==
    /\ engine = "pending"
    /\ new_args' = Consumed(new_args.deprecated)
    /\ IF new_args.build = "ok"
       THEN /\ engine' = "running"
            /\ config' = InitialConfig(new_args.deprecated, new_args.outcome)[1]
            /\ config_error' = InitialConfig(new_args.deprecated, new_args.outcome)[2]
            /\ heap' = <<BuildDashboardData(config', 1, EmptyOverlay)>>
            /\ data' = 1
            /\ dataWriter' = 0
            /\ update_tx' = 1
            /\ vfs' = EmptyOverlay
            /\ version' = 1
            /\ pc' = [t \in Tasks |-> "idle"]
            /\ UNCHANGED <<caller, vfs_args, before, lout, lcfg, lov, lver, lnew, ret>>
       ELSE /\ engine' = "failed"
            /\ UNCHANGED <<shared, pc, caller, vfs_args, before, lout, lcfg, lov, lver, lnew,
                           ret>>
    /\ UNCHANGED oneshot

\* what the called method returns for rebuild's result
ReturnValue(c, result) ==
    IF c \in VfsCallers THEN RetUnit ELSE result

\* the called method returns r and its frame is gone
Return(t, r) ==
    /\ ret' = [ret EXCEPT ![t] = ReturnValue(caller[t], r)]
    /\ pc' = [pc EXCEPT ![t] = "idle"]
    /\ caller' = [caller EXCEPT ![t] = "none"]
    /\ vfs_args' = [vfs_args EXCEPT ![t] = NoVfsArgs]
    /\ before' = [before EXCEPT ![t] = <<0, 0>>]
    /\ lout' = [lout EXCEPT ![t] = NoOutcome]
    /\ lcfg' = [lcfg EXCEPT ![t] = NoConfig]
    /\ lov' = [lov EXCEPT ![t] = EmptyOverlay]
    /\ lver' = [lver EXCEPT ![t] = 0]
    /\ lnew' = [lnew EXCEPT ![t] = 0]

\* Engine::data: read lock, clone the handle, unlock
DataCall(t) ==
    /\ pc[t] = "idle"
    /\ dataWriter = 0
    /\ ret' = [ret EXCEPT ![t] = RetData(data)]
    /\ UNCHANGED <<shared, pc, caller, vfs_args, before, lout, lcfg, lov, lver, lnew>>
    /\ UNCHANGED outside

\* a task calls vfs_open / vfs_change / vfs_close
VfsCall(t) ==
    /\ pc[t] = "idle"
    /\ Budget
    /\ \E c \in VfsCallers, p \in Paths :
          /\ caller' = [caller EXCEPT ![t] = c]
          /\ \E content \in (IF c = "vfs_close" THEN {Absent} ELSE Contents) :
                vfs_args' = [vfs_args EXCEPT ![t] = <<p, content>>]
    /\ pc' = [pc EXCEPT ![t] = "vfs"]
    /\ UNCHANGED <<shared, before, lout, lcfg, lov, lver, lnew, ret>>
    /\ UNCHANGED outside

\* VfsApply with vfs_open leaving the entry of an already open path alone
VfsApplyOpenKeeps(c, overlay, p, content) ==
    IF c = "vfs_close" THEN [overlay EXCEPT ![p] = Absent]
    ELSE IF c = "vfs_open" /\ overlay[p] # Absent THEN overlay
    ELSE [overlay EXCEPT ![p] = content]

\* the overlay a vfs_* call leaves behind
VfsApply(c, overlay, p, content) ==
    IF c = "vfs_close" THEN [overlay EXCEPT ![p] = Absent]
    ELSE [overlay EXCEPT ![p] = content]

\* VfsWrite that rebuilds only when the overlay changed
VfsWriteSkipUnchanged(t) ==
    /\ pc[t] = "vfs"
    /\ vfs' = VfsApply(caller[t], vfs, vfs_args[t][1], vfs_args[t][2])
    /\ IF vfs' = vfs
       THEN /\ Return(t, RetUnit)
            /\ UNCHANGED <<heap, data, dataWriter, update_tx, config, config_error,
                           version>>
       ELSE /\ pc' = [pc EXCEPT ![t] = "read_config"]
            /\ before' = [before EXCEPT ![t] = <<version, data>>]
            /\ vfs_args' = [vfs_args EXCEPT ![t] = NoVfsArgs]
            /\ UNCHANGED <<heap, data, dataWriter, update_tx, config, config_error,
                           version, caller, lout, lcfg, lov, lver, lnew, ret>>
    /\ UNCHANGED outside

\* vfs_*: write lock on the overlay, insert / remove, drop the lock, enter rebuild()
VfsWrite(t) ==
    /\ pc[t] = "vfs"
    /\ vfs' = VfsApply(caller[t], vfs, vfs_args[t][1], vfs_args[t][2])
    /\ pc' = [pc EXCEPT ![t] = "read_config"]
    /\ before' = [before EXCEPT ![t] = <<version, data>>]
    /\ vfs_args' = [vfs_args EXCEPT ![t] = NoVfsArgs]
    /\ UNCHANGED <<heap, data, dataWriter, update_tx, config, config_error, version,
                   caller, lout, lcfg, lov, lver, lnew, ret>>
    /\ UNCHANGED outside

\* a task calls rebuild() directly
RebuildCall(t) ==
    /\ pc[t] = "idle"
    /\ Budget
    /\ caller' = [caller EXCEPT ![t] = "rebuild"]
    /\ UNCHANGED vfs_args
    /\ pc' = [pc EXCEPT ![t] = "read_config"]
    /\ before' = [before EXCEPT ![t] = <<version, data>>]
    /\ UNCHANGED <<shared, lout, lcfg, lov, lver, lnew, ret>>
    /\ UNCHANGED outside

\* ReadConfig that stores the chosen config in the engine at once
ReadConfigStoring(t) ==
    /\ pc[t] = "read_config"
    /\ \E outcome \in Outcomes :
          /\ lout' = [lout EXCEPT ![t] = outcome]
          /\ lcfg' = [lcfg EXCEPT ![t] = ChooseConfig(outcome, config)]
    /\ config' = lcfg'[t]
    /\ pc' = [pc EXCEPT ![t] = "set_error"]
    /\ UNCHANGED <<heap, data, dataWriter, update_tx, vfs, config_error, version,
                   caller, vfs_args, before, lov, lver, lnew, ret>>
    /\ UNCHANGED outside

\* rebuild: read and parse the config file, then use the new config if valid,
\* otherwise self.config.read().await.clone()
ReadConfig(t) ==
    /\ pc[t] = "read_config"
    /\ \E outcome \in Outcomes :
          /\ lout' = [lout EXCEPT ![t] = outcome]
          /\ lcfg' = [lcfg EXCEPT ![t] = ChooseConfig(outcome, config)]
    /\ pc' = [pc EXCEPT ![t] = "set_error"]
    /\ UNCHANGED <<shared, caller, vfs_args, before, lov, lver, lnew, ret>>
    /\ UNCHANGED outside

\* SetConfigError with rebuild() checking for deprecated config files the way
\* Engine::new does
SetConfigErrorRechecking(t) ==
    /\ pc[t] = "set_error"
    /\ config_error' = IF new_args.deprecated THEN "deprecated"
                       ELSE NewConfigError(lout[t])
    /\ pc' = [pc EXCEPT ![t] = "clone_overlay"]
    /\ UNCHANGED <<heap, data, dataWriter, update_tx, vfs, config, version,
                   caller, vfs_args, before, lout, lcfg, lov, lver, lnew, ret>>
    /\ UNCHANGED outside

\* rebuild: overwrite the config error
SetConfigError(t) ==
    /\ pc[t] = "set_error"
    /\ config_error' = NewConfigError(lout[t])
    /\ pc' = [pc EXCEPT ![t] = "clone_overlay"]
    /\ UNCHANGED <<heap, data, dataWriter, update_tx, vfs, config, version,
                   caller, vfs_args, before, lout, lcfg, lov, lver, lnew, ret>>
    /\ UNCHANGED outside

\* rebuild: read lock on the overlay, clone it, unlock
CloneOverlay(t) ==
    /\ pc[t] = "clone_overlay"
    /\ lov' = [lov EXCEPT ![t] = vfs]
    /\ pc' = [pc EXCEPT ![t] = "fetch_add"]
    /\ UNCHANGED <<shared, caller, vfs_args, before, lout, lcfg, lver, lnew, ret>>
    /\ UNCHANGED outside

\* FetchAdd as a load when rebuild() is entered and a store here: not atomic
FetchAddLoadStore(t) ==
    /\ pc[t] = "fetch_add"
    /\ version' = before[t][1] + 1
    /\ lver' = [lver EXCEPT ![t] = before[t][1] + 1]
    /\ pc' = [pc EXCEPT ![t] = "build"]
    /\ UNCHANGED <<heap, data, dataWriter, update_tx, vfs, config, config_error,
                   caller, vfs_args, before, lout, lcfg, lov, lnew, ret>>
    /\ UNCHANGED outside

\* FetchAdd that tags the build with the value after the one it took
FetchAddTagAhead(t) ==
    /\ pc[t] = "fetch_add"
    /\ version' = version + 1
    /\ lver' = [lver EXCEPT ![t] = version' + 1]
    /\ pc' = [pc EXCEPT ![t] = "build"]
    /\ UNCHANGED <<heap, data, dataWriter, update_tx, vfs, config, config_error,
                   caller, vfs_args, before, lout, lcfg, lov, lnew, ret>>
    /\ UNCHANGED outside

\* rebuild: version.fetch_add(1) + 1
FetchAdd(t) ==
    /\ pc[t] = "fetch_add"
    /\ version' = version + 1
    /\ lver' = [lver EXCEPT ![t] = version + 1]
    /\ pc' = [pc EXCEPT ![t] = "build"]
    /\ UNCHANGED <<heap, data, dataWriter, update_tx, vfs, config, config_error,
                   caller, vfs_args, before, lout, lcfg, lov, lnew, ret>>
    /\ UNCHANGED outside

\* BuildOk with the pipeline reading the engine's overlay instead of the clone
BuildOkFromLiveOverlay(t) ==
    /\ pc[t] = "build"
    /\ heap' = Append(heap, BuildDashboardData(lcfg[t], lver[t], vfs))
    /\ lnew' = [lnew EXCEPT ![t] = Len(heap) + 1]
    /\ lov' = [lov EXCEPT ![t] = EmptyOverlay]
    /\ lout' = [lout EXCEPT ![t] = NoOutcome]
    /\ pc' = [pc EXCEPT ![t] = "lock_data"]
    /\ UNCHANGED <<data, dataWriter, update_tx, vfs, config, config_error, version,
                   caller, vfs_args, before, lcfg, lver, ret>>
    /\ UNCHANGED outside

\* rebuild: the pipeline succeeds; Arc::new(new_data)
BuildOk(t) ==
    /\ pc[t] = "build"
    /\ heap' = Append(heap, BuildDashboardData(lcfg[t], lver[t], lov[t]))
    /\ lnew' = [lnew EXCEPT ![t] = Len(heap) + 1]
    /\ lov' = [lov EXCEPT ![t] = EmptyOverlay]
    /\ lout' = [lout EXCEPT ![t] = NoOutcome]
    /\ pc' = [pc EXCEPT ![t] = "lock_data"]
    /\ UNCHANGED <<data, dataWriter, update_tx, vfs, config, config_error, version,
                   caller, vfs_args, before, lcfg, lver, ret>>
    /\ UNCHANGED outside

\* rebuild: the pipeline fails; `?` returns the error, vfs_* log it and return
BuildErr(t) ==
    /\ pc[t] = "build"
    /\ Return(t, RetErr)
    /\ UNCHANGED shared
    /\ UNCHANGED outside

\* rebuild: self.data.write().await
LockData(t) ==
    /\ pc[t] = "lock_data"
    /\ dataWriter = 0
    /\ dataWriter' = t
    /\ pc' = [pc EXCEPT ![t] = "swap_data"]
    /\ UNCHANGED <<heap, data, update_tx, vfs, config, config_error, version,
                   caller, vfs_args, before, lout, lcfg, lov, lver, lnew, ret>>
    /\ UNCHANGED outside

\* SwapData that overwrites the published snapshot in place instead of
\* swapping the handle
SwapDataInPlace(t) ==
    /\ pc[t] = "swap_data"
    /\ heap' = [heap EXCEPT ![data] = heap[lnew[t]]]
    /\ dataWriter' = 0
    /\ pc' = [pc EXCEPT ![t] = "set_config"]
    /\ UNCHANGED <<data, update_tx, vfs, config, config_error, version,
                   caller, vfs_args, before, lout, lcfg, lov, lver, lnew, ret>>
    /\ UNCHANGED outside

\* SwapData with the write guard kept for the rest of rebuild()
SwapDataKeepsGuard(t) ==
    /\ pc[t] = "swap_data"
    /\ data' = lnew[t]
    /\ pc' = [pc EXCEPT ![t] = "set_config"]
    /\ UNCHANGED <<heap, dataWriter, update_tx, vfs, config, config_error, version,
                   caller, vfs_args, before, lout, lcfg, lov, lver, lnew, ret>>
    /\ UNCHANGED outside

\* rebuild: *data = Arc::clone(&new_data), then the guard is dropped
SwapData(t) ==
    /\ pc[t] = "swap_data"
    /\ data' = lnew[t]
    /\ dataWriter' = 0
    /\ pc' = [pc EXCEPT ![t] = "set_config"]
    /\ UNCHANGED <<heap, update_tx, vfs, config, config_error, version,
                   caller, vfs_args, before, lout, lcfg, lov, lver, lnew, ret>>
    /\ UNCHANGED outside

\* rebuild: *cfg = config; update_tx.send(new_data); Ok((new_version, elapsed))
SetConfigAndSend(t) ==
    /\ pc[t] = "set_config"
    /\ config' = lcfg[t]
    /\ update_tx' = lnew[t]
    /\ Return(t, RetOk(lver[t]))
    /\ UNCHANGED <<heap, data, dataWriter, vfs, config_error, version>>
    /\ UNCHANGED outside

Next ==
    \E t \in Tasks :
        \/ DataCall(t)
        \/ VfsCall(t)
        \/ VfsWrite(t)
        \/ RebuildCall(t)
        \/ ReadConfig(t)
        \/ SetConfigError(t)
        \/ CloneOverlay(t)
        \/ FetchAdd(t)
        \/ BuildOk(t)
        \/ BuildErr(t)
        \/ LockData(t)
        \/ SwapData(t)
        \/ SetConfigAndSend(t)

Spec == Init /\ [][Next]_vars

\* the next step of the call task t is in: the code up to its next await
Step(t) ==
    \/ VfsWrite(t)
    \/ ReadConfig(t)
    \/ SetConfigError(t)
    \/ CloneOverlay(t)
    \/ FetchAdd(t)
    \/ BuildOk(t)
    \/ BuildErr(t)
    \/ LockData(t)
    \/ SwapData(t)
    \/ SetConfigAndSend(t)

\* the daemon from before its construction
NewNext == EngineNew \/ Next

SpecNew == NewInit /\ [][NewNext]_vars

\* ------------------------------------------------- the reference extractor

\* text is a sequence of one-character strings
Lower == {"a", "b", "c", "d", "e", "f", "g", "h", "i", "j", "k", "l", "m",
          "n", "o", "p", "q", "r", "s", "t", "u", "v", "w", "x", "y", "z"}
Digit == {"0", "1", "2", "3", "4", "5", "6", "7", "8", "9"}

\* char::is_ascii_lowercase, char::is_ascii_digit
IsAsciiLowercase(c) == c \in Lower
IsAsciiDigit(c) == c \in Digit

\* enum RefVerb
RefVerbs == {"Define", "Impl", "Verify", "Depends", "Related"}

\* RefVerb::as_str, as characters
AsStr(verb) ==
    CASE verb = "Define" -> <<"d", "e", "f", "i", "n", "e">>
      [] verb = "Impl" -> <<"i", "m", "p", "l">>
      [] verb = "Verify" -> <<"v", "e", "r", "i", "f", "y">>
      [] verb = "Depends" -> <<"d", "e", "p", "e", "n", "d", "s">>
      [] verb = "Related" -> <<"r", "e", "l", "a", "t", "e", "d">>

\* RefVerbFromStr that does not know `define`
RefVerbFromStrNoDefine(s) ==
    CASE s = <<"i", "m", "p", "l">> -> "Impl"
      [] s = <<"v", "e", "r", "i", "f", "y">> -> "Verify"
      [] s = <<"d", "e", "p", "e", "n", "d", "s">> -> "Depends"
      [] s = <<"r", "e", "l", "a", "t", "e", "d">> -> "Related"
      [] OTHER -> "None"

\* RefVerbFromStr that reads an unknown word as the default verb
RefVerbFromStrDefaultImpl(s) ==
    CASE s = <<"d", "e", "f", "i", "n", "e">> -> "Define"
      [] s = <<"v", "e", "r", "i", "f", "y">> -> "Verify"
      [] s = <<"d", "e", "p", "e", "n", "d", "s">> -> "Depends"
      [] s = <<"r", "e", "l", "a", "t", "e", "d">> -> "Related"
      [] OTHER -> "Impl"

\* RefVerb::from_str; "None" is Option::None
RefVerbFromStr(s) ==
    CASE s = <<"d", "e", "f", "i", "n", "e">> -> "Define"
      [] s = <<"i", "m", "p", "l">> -> "Impl"
      [] s = <<"v", "e", "r", "i", "f", "y">> -> "Verify"
      [] s = <<"d", "e", "p", "e", "n", "d", "s">> -> "Depends"
      [] s = <<"r", "e", "l", "a", "t", "e", "d">> -> "Related"
      [] OTHER -> "None"

\* struct RuleReference; `file` is the same for every reference of one call and
\* `context` is the trimmed text, neither is read by the coverage report
RuleReference(verb, rule_id, line) ==
    [verb |-> verb, rule_id |-> rule_id, line |-> line]

\* the characters both reading loops push: lowercase, digit, '-' or '.'
IsIdChar(c) == IsAsciiLowercase(c) \/ IsAsciiDigit(c) \/ c = "-" \/ c = "."

\* where a reading loop stops: the first position from i on that holds no such
\* character, or the end of the text
RECURSIVE ReadEnd(_, _)
ReadEnd(text, i) ==
    IF i > Len(text) \/ ~IsIdChar(text[i]) THEN i ELSE ReadEnd(text, i + 1)

\* str::contains('.') and str::ends_with('.')
ContainsDot(s) == \E i \in 1..Len(s) : s[i] = "."
EndsWithDot(s) == Len(s) > 0 /\ s[Len(s)] = "."

\* PeekedAt with the rejected character swallowed
PeekedAtConsumed(k) == k + 1

\* where the scan goes on after a character was rejected at k: the character
\* was only peeked, so it is the next one the outer loop takes
PeekedAt(k) == k

\* the validation of the legacy form
LegacyValid(first_word) == ContainsDot(first_word) /\ ~EndsWithDot(first_word)

\* the validation of the explicit-verb form (found_dot is set by a pushed '.')
VerbFormValid(rule_id) ==
    ContainsDot(rule_id) /\ ~EndsWithDot(rule_id) /\ rule_id # <<>>

\* extract_references_from_text: the `while let Some(ch) = chars.next()` loop,
\* from position i of the text on
RECURSIVE ExtractReferencesFromText(_, _, _, _)
ExtractReferencesFromText(text, i, line, refs) ==
    IF i > Len(text) THEN refs
    ELSE IF text[i] # "[" THEN ExtractReferencesFromText(text, i + 1, line, refs)
    ELSE IF i + 1 > Len(text) THEN refs
    ELSE IF ~IsAsciiLowercase(text[i + 1])
    THEN ExtractReferencesFromText(text, PeekedAt(i + 1), line, refs)
    ELSE
      LET k == ReadEnd(text, i + 2)
          first_word == SubSeq(text, i + 1, k - 1)
      IN
      IF k > Len(text) THEN refs
      ELSE IF text[k] = " "
      THEN
        IF RefVerbFromStr(first_word) = "None"
        THEN ExtractReferencesFromText(text, k, line, refs)
        ELSE
          \* the space is consumed; the rule id starts at k + 1
          IF k + 1 <= Len(text) /\ ~IsAsciiLowercase(text[k + 1])
          THEN ExtractReferencesFromText(text, PeekedAt(k + 1), line, refs)
          ELSE
            LET e == IF k + 1 > Len(text) THEN k + 1 ELSE ReadEnd(text, k + 2)
                rule_id == SubSeq(text, k + 1, e - 1)
                closed == e <= Len(text) /\ text[e] = "]"
                after == IF closed THEN e + 1 ELSE PeekedAt(e)
            IN
            ExtractReferencesFromText(text, after, line,
                IF VerbFormValid(rule_id)
                THEN Append(refs, RuleReference(RefVerbFromStr(first_word),
                                                rule_id, line))
                ELSE refs)
      ELSE IF text[k] = "]"
      THEN ExtractReferencesFromText(text, k + 1, line,
                IF LegacyValid(first_word)
                THEN Append(refs, RuleReference("Impl", first_word, line))
                ELSE refs)
      ELSE ExtractReferencesFromText(text, PeekedAt(k), line, refs)

\* str::find for a two-character pattern: the first position of it, 0 if none
RECURSIVE Find(_, _, _)
Find(line, pattern, i) ==
    IF i + 1 > Len(line) THEN 0
    ELSE IF line[i] = pattern[1] /\ line[i + 1] = pattern[2] THEN i
    ELSE Find(line, pattern, i + 1)

\* &line[from..]
SliceFrom(line, from) == SubSeq(line, from, Len(line))

\* extract_rule_references, first loop: the `//` comment of every line
RECURSIVE LineCommentPass(_, _, _)
LineCommentPass(ls, n, refs) ==
    IF n > Len(ls) THEN refs
    ELSE LET comment_start == Find(ls[n], <<"/", "/">>, 1)
         IN LineCommentPass(ls, n + 1,
                IF comment_start # 0
                THEN ExtractReferencesFromText(SliceFrom(ls[n], comment_start), 1, n, refs)
                ELSE refs)

\* extract_rule_references, second loop: the `/* */` blocks
RECURSIVE BlockCommentPass(_, _, _, _, _, _)
BlockCommentPass(ls, n, in_block_comment, block_comment_start_line, block_comment_content, refs) ==
    IF n > Len(ls) THEN refs
    ELSE IF in_block_comment
    THEN
      LET end_pos == Find(ls[n], <<"*", "/">>, 1)
      IN IF end_pos # 0
         THEN BlockCommentPass(ls, n + 1, FALSE, block_comment_start_line, <<>>,
                  ExtractReferencesFromText(
                      block_comment_content \o SubSeq(ls[n], 1, end_pos - 1),
                      1, block_comment_start_line, refs))
         ELSE BlockCommentPass(ls, n + 1, TRUE, block_comment_start_line,
                  block_comment_content \o ls[n] \o <<"\n">>, refs)
    ELSE
      LET start_pos == Find(ls[n], <<"/", "*">>, 1)
          rest == SliceFrom(ls[n], start_pos + 2)
          end_pos == Find(rest, <<"*", "/">>, 1)
      IN IF start_pos = 0
         THEN BlockCommentPass(ls, n + 1, FALSE, block_comment_start_line,
                               block_comment_content, refs)
         ELSE IF end_pos # 0
         THEN BlockCommentPass(ls, n + 1, FALSE, n, block_comment_content,
                  ExtractReferencesFromText(SubSeq(rest, 1, end_pos - 1), 1, n, refs))
         ELSE BlockCommentPass(ls, n + 1, TRUE, n,
                  block_comment_content \o rest \o <<"\n">>, refs)

\* extract_rule_references: both loops over content.lines(), always Ok
ExtractRuleReferences(ls) ==
    BlockCommentPass(ls, 1, FALSE, 0, <<>>, LineCommentPass(ls, 1, <<>>))

\* ----------------------------------------------------- the coverage report

\* SpecManifest::has_rule with every id taken as known
HasRuleAlways(rules, id) == TRUE

\* SpecManifest::has_rule: rules.contains_key(id)
HasRule(rules, id) == id \in rules

\* HashMap::new()
EmptyMap == [k \in {} |-> <<>>]

\* Push with the entry's vector replaced instead of extended
PushReplacing(map, key, value) ==
    [k \in DOMAIN map \cup {key} |-> IF k = key THEN <<value>> ELSE map[k]]

\* map.entry(key).or_default().push(value)
Push(map, key, value) ==
    [k \in DOMAIN map \cup {key} |->
        IF k = key
        THEN Append(IF key \in DOMAIN map THEN map[key] ELSE <<>>, value)
        ELSE map[k]]

\* map.entry(verb).or_default().entry(key).or_default().push(value)
PushByVerb(map, verb, key, value) ==
    [v \in DOMAIN map \cup {verb} |->
        IF v = verb
        THEN Push(IF verb \in DOMAIN map THEN map[verb] ELSE EmptyMap, key, value)
        ELSE map[v]]

\* ComputeLoop with only impl and verify references covering their rule
RECURSIVE ComputeLoopImplVerify(_, _, _, _)
ComputeLoopImplVerify(rules, refs, i, acc) ==
    IF i > Len(refs) THEN acc
    ELSE LET reference == refs[i]
         IN ComputeLoopImplVerify(rules, refs, i + 1,
                IF HasRule(rules, reference.rule_id)
                THEN [acc EXCEPT
                        !.covered_rules =
                            IF reference.verb \in {"Impl", "Verify"}
                            THEN @ \cup {reference.rule_id} ELSE @,
                        !.references_by_rule = Push(@, reference.rule_id, reference),
                        !.references_by_verb =
                            PushByVerb(@, reference.verb, reference.rule_id, reference)]
                ELSE [acc EXCEPT
                        !.invalid_references = Append(@, reference)])

\* CoverageReport::compute: the `for reference in references` loop from the
\* i-th reference on
RECURSIVE ComputeLoop(_, _, _, _)
ComputeLoop(rules, refs, i, acc) ==
    IF i > Len(refs) THEN acc
    ELSE LET reference == refs[i]
         IN ComputeLoop(rules, refs, i + 1,
                IF HasRule(rules, reference.rule_id)
                THEN [acc EXCEPT
                        !.covered_rules = @ \cup {reference.rule_id},
                        !.references_by_rule = Push(@, reference.rule_id, reference),
                        !.references_by_verb =
                            PushByVerb(@, reference.verb, reference.rule_id, reference)]
                ELSE [acc EXCEPT
                        !.invalid_references = Append(@, reference)])

\* CoverageReport::compute; rules is the key set of SpecManifest.rules
Compute(rules, refs) ==
    LET acc == ComputeLoop(rules, refs, 1,
                   [covered_rules |-> {}, invalid_references |-> <<>>,
                    references_by_rule |-> EmptyMap,
                    references_by_verb |-> EmptyMap])
    IN [total_rules |-> Cardinality(rules),
        covered_rules |-> acc.covered_rules,
        uncovered_rules |-> rules \ acc.covered_rules,
        invalid_references |-> acc.invalid_references,
        references_by_rule |-> acc.references_by_rule,
        references_by_verb |-> acc.references_by_verb]

\* coverage_percent with an empty manifest counted as not covered at all
CoveragePercentEmptyZero(r) ==
    IF r.total_rules = 0 THEN F64(0)
    ELSE F64Mul(F64Div(F64(Cardinality(r.covered_rules)), F64(r.total_rules)), F64(100))

\* CoverageReport::coverage_percent
CoveragePercent(r) ==
    IF r.total_rules = 0 THEN F64(100)
    ELSE F64Mul(F64Div(F64(Cardinality(r.covered_rules)), F64(r.total_rules)), F64(100))

\* is_passing without the test of invalid_references
IsPassingPercentOnly(r, min) == F64Ge(CoveragePercent(r), min)

\* CoverageReport::is_passing
IsPassing(r, min) == r.invalid_references = <<>> /\ F64Ge(CoveragePercent(r), min)

\* ------------------------------------------------------------ the scanner

\* str::starts_with, str::ends_with
StartsWith(text, prefix) ==
    Len(text) >= Len(prefix) /\ SubSeq(text, 1, Len(prefix)) = prefix
EndsWith(text, suffix) ==
    /\ Len(text) >= Len(suffix)
    /\ SubSeq(text, Len(text) - Len(suffix) + 1, Len(text)) = suffix

\* pattern.split('*').filter(|s| !s.is_empty()): the fragments from the i-th
\* character on, cur being the fragment under way
RECURSIVE SplitStar(_, _, _, _)
SplitStar(pattern, i, cur, parts) ==
    IF i > Len(pattern) THEN (IF cur = <<>> THEN parts ELSE Append(parts, cur))
    ELSE IF pattern[i] = "*"
    THEN SplitStar(pattern, i + 1, <<>>, IF cur = <<>> THEN parts ELSE Append(parts, cur))
    ELSE SplitStar(pattern, i + 1, Append(cur, pattern[i]), parts)

\* str::find on the path from position i on: where part first starts, 0 for None
RECURSIVE FindFrom(_, _, _)
FindFrom(path, part, i) ==
    IF i + Len(part) - 1 > Len(path) THEN 0
    ELSE IF SubSeq(path, i, i + Len(part) - 1) = part THEN i
    ELSE FindFrom(path, part, i + 1)

\* matches_glob's loop over the parts from the k-th on; `remaining` is the
\* path from position i on
RECURSIVE MatchParts(_, _, _, _)
MatchParts(path, parts, k, i) ==
    IF k > Len(parts) THEN TRUE
    ELSE LET idx == FindFrom(path, parts[k], i)
         IN IF idx = 0 THEN FALSE
            ELSE MatchParts(path, parts, k + 1, idx + Len(parts[k]))

\* matches_glob
MatchesGlob(path, pattern) ==
    IF pattern = <<"*", "*", "/", "*", ".", "r", "s">>
    THEN EndsWith(path, <<".", "r", "s">>)
    ELSE IF EndsWith(pattern, <<"/", "*", "*">>)
    THEN StartsWith(path, SubSeq(pattern, 1, Len(pattern) - 3))
    ELSE LET parts == SplitStar(pattern, 1, <<>>, <<>>)
         IN IF parts = <<>> THEN TRUE
            ELSE MatchParts(path, parts, 1, 1)

\* path.strip_prefix(root) as a string: the components from the i-th on,
\* joined by the separator
RECURSIVE RelativeStr(_, _)
RelativeStr(components, i) ==
    IF i > Len(components) THEN <<>>
    ELSE IF i = Len(components) THEN components[i]
    ELSE components[i] \o <<"/">> \o RelativeStr(components, i + 1)

\* path.extension().is_some_and(|ext| ext == "rs") for a file name: the name
\* ends with `.rs` and that dot is not its first character
HasRsExtension(name) ==
    EndsWith(name, <<".", "r", "s">>) /\ Len(name) > Len(<<".", "r", "s">>)

\* IsIncluded with an empty pattern list including nothing
IsIncludedEmptyNone(components, patterns) ==
    \E k \in 1..Len(patterns) : MatchesGlob(RelativeStr(components, 1), patterns[k])

\* is_included
IsIncluded(components, patterns) ==
    \/ patterns = <<>>
    \/ \E k \in 1..Len(patterns) : MatchesGlob(RelativeStr(components, 1), patterns[k])

\* is_excluded
IsExcluded(components, patterns) ==
    \E k \in 1..Len(patterns) : MatchesGlob(RelativeStr(components, 1), patterns[k])

\* the files and the directories right below a directory of the tree
ChildFiles(files, dir) ==
    {f \in files : Len(f) = Len(dir) + 1 /\ SubSeq(f, 1, Len(dir)) = dir}
ChildDirs(files, dir) ==
    {SubSeq(f, 1, Len(dir) + 1) :
        f \in {g \in files : Len(g) > Len(dir) + 1 /\ SubSeq(g, 1, Len(dir)) = dir}}

\* WalkDir::new(root).into_iter().filter_entry(..) from the directory dir on,
\* and the loop body of scan_directory: an excluded entry is skipped, a
\* directory with all below it; a file that passes is read and extracted
RECURSIVE Walk(_, _, _, _)
Walk(files, dir, includes, excludes) ==
    IF IsExcluded(dir, excludes) THEN {}
    ELSE {f \in ChildFiles(files, dir) :
            /\ ~IsExcluded(f, excludes)
            /\ HasRsExtension(f[Len(f)])
            /\ IsIncluded(f, includes)}
         \cup UNION {Walk(files, d, includes, excludes) : d \in ChildDirs(files, dir)}

\* scan_directory: the files whose references it returns
ScanDirectory(files, includes, excludes) == Walk(files, <<>>, includes, excludes)

\* main: the default include and exclude patterns, `**/*.rs` and `target/**`
DefaultInclude == <<"*", "*", "/", "*", ".", "r", "s">>
DefaultExclude == <<"t", "a", "r", "g", "e", "t", "/", "*", "*">>
\* main: `if spec_config.include.is_empty() { vec![default] } else { .. }`
OrDefault(patterns, default) == IF patterns = <<>> THEN <<default>> ELSE patterns

\* -------------------------------------------------------- the spec parser
\* (spec section 4.2; the parser's code is not part of the sources modelled)

\* Result values
Ok(v) == <<"ok", v>>
Err(kind) == <<"err", kind>>

AttrKeys == {"status", "level", "since", "until", "tags"}
Statuses == {"stable", "draft", "deprecated"}
Levels == {"must", "should", "may"}

\* the error a key=value pair raises, "none" when it is accepted
AttrError(attr) ==
    CASE attr[1] \notin AttrKeys -> "unknown attribute"
      [] attr[1] = "status" /\ attr[2] \notin Statuses -> "invalid status"
      [] attr[1] = "level" /\ attr[2] \notin Levels -> "invalid level"
      [] OTHER -> "none"

\* the first error among a definition's attributes from the i-th on
RECURSIVE MetadataError(_, _)
MetadataError(attrs, i) ==
    IF i > Len(attrs) THEN "none"
    ELSE IF AttrError(attrs[i]) # "none" THEN AttrError(attrs[i])
    ELSE MetadataError(attrs, i + 1)

\* Parse with a definition of bad metadata skipped and the rest kept
RECURSIVE ParseSkipBad(_, _, _)
ParseSkipBad(doc, i, defs) ==
    IF i > Len(doc) THEN Ok(defs)
    ELSE ParseSkipBad(doc, i + 1,
             IF MetadataError(doc[i].attrs, 1) # "none" THEN defs
             ELSE Append(defs, doc[i]))

\* parse(doc_path, text): the definitions from the i-th on, in source order,
\* or the first error
RECURSIVE Parse(_, _, _)
Parse(doc, i, defs) ==
    IF i > Len(doc) THEN Ok(defs)
    ELSE LET e == MetadataError(doc[i].attrs, 1)
         IN IF e # "none" THEN Err(e)
            ELSE Parse(doc, i + 1, Append(defs, doc[i]))

\* IsDuplicate with no id ever taken as defined
IsDuplicateNever(rules, id) == FALSE

\* the manifest being built already has a definition of the id
IsDuplicate(rules, id) == id \in DOMAIN rules

\* the definitions of one document, from the i-th on, added to the manifest
RECURSIVE InsertAll(_, _, _)
InsertAll(rules, defs, i) ==
    IF i > Len(defs) THEN Ok(rules)
    ELSE IF IsDuplicate(rules, defs[i].id) THEN Err("duplicate")
    ELSE InsertAll([k \in DOMAIN rules \cup {defs[i].id} |->
                       IF k = defs[i].id THEN defs[i].attrs ELSE rules[k]],
                   defs, i + 1)

\* the spec set, from the d-th document on, loaded into one manifest
RECURSIVE LoadSpecs(_, _, _)
LoadSpecs(ds, d, rules) ==
    IF d > Len(ds) THEN Ok(rules)
    ELSE LET parsed == Parse(ds[d], 1, <<>>)
         IN IF parsed[1] = "err" THEN parsed
            ELSE LET added == InsertAll(rules, parsed[2], 1)
                 IN IF added[1] = "err" THEN added
                    ELSE LoadSpecs(ds, d + 1, added[2])

\* --------------------------------------------------------- the at query
\* (spec section 4.1, query interface; its code is not part of the sources
\* modelled)

\* `file:L` and `file:L1-L2`
LineLocation(l) == <<"line", l, l>>
RangeLocation(l1, l2) == <<"range", l1, l2>>

\* InLocation with the range's last line left out
InLocationHalfOpen(loc, line) ==
    IF loc[1] = "file" THEN TRUE
    ELSE IF loc[1] = "line" THEN line = loc[2]
    ELSE loc[2] <= line /\ line < loc[3]

\* the line lies at the location
InLocation(loc, line) ==
    IF loc[1] = "file" THEN TRUE
    ELSE IF loc[1] = "line" THEN line = loc[2]
    ELSE loc[2] <= line /\ line <= loc[3]

\* the references from the i-th on that lie at the location, appended to acc
RECURSIVE At(_, _, _, _)
At(refs, loc, i, acc) ==
    IF i > Len(refs) THEN acc
    ELSE At(refs, loc, i + 1,
            IF InLocation(loc, refs[i].line) THEN Append(acc, refs[i]) ELSE acc)

\* --------------------------------------------------------- one-shot inputs

\* every sequence over the alphabet of length at most n
RECURSIVE Strings(_, _)
Strings(alphabet, n) ==
    IF n = 0 THEN {<<>>}
    ELSE LET shorter == Strings(alphabet, n - 1)
         IN shorter \cup {Append(w, c) : w \in shorter, c \in alphabet}

\* the characters a bracket's body is written with: a letter, the dot, the
\* hyphen, a digit, and an uppercase letter
BodyChars == {"a", ".", "-", "1", "C"}

\* first words that are no verb: a prefix of a verb, a rule id, and the word of
\* the extractor's own test
UnknownWords ==
    {<<"i", "m", "p">>, <<"a", ".", "a">>,
     <<"u", "n", "k", "n", "o", "w", "n", "-", "v", "e", "r", "b">>}

\* what stands between '[' and the body: nothing, or a first word and a space
VerbHeads == {AsStr(v) \o <<" ">> : v \in RefVerbs}
Heads == {<<>>} \cup VerbHeads \cup {w \o <<" ">> : w \in UnknownWords}
Closers == {<<"]">>, <<>>}

\* one bracket, closed or not
Bracket(head, body, closer) == <<"[">> \o head \o body \o closer

\* the bodies of single brackets
Bodies == Strings(BodyChars, MaxIdLen)

\* brackets that hold no reference: legacy, explicit-verb and unknown-verb
\* heads over bodies of at most n characters, too short for a rule id
Junk(n) ==
    {Bracket(h, b, c) : h \in {<<>>, <<"i", "m", "p", "l", " ">>, <<"x", " ">>},
                        b \in Strings(BodyChars, n), c \in Closers}

\* a well-formed reference in each form
LegacyRef == <<"[", "a", ".", "a", "]">>
VerifyRef == <<"[", "v", "e", "r", "i", "f", "y", " ", "a", ".", "1", "]">>
DependsRef == <<"[", "d", "e", "p", "e", "n", "d", "s", " ", "a", ".", "-", "]">>

\* a text of several brackets: an optional leading reference, one or two
\* brackets without a reference (the second with a shorter body), and a
\* well-formed reference last
Leads == {<<>>, DependsRef}
Finals == {LegacyRef, VerifyRef}
MultiText(lead, j1, j2, final) == lead \o j1 \o j2 \o final

\* the comment a text is written in: `// text`, `/* text */`, or a block
\* comment over three lines
Layouts == {"line", "block", "lines"}
Layout(kind, text) ==
    CASE kind = "line" -> <<(<<"/", "/", " ">> \o text)>>
      [] kind = "block" -> <<(<<"/", "*", " ">> \o text \o <<" ", "*", "/">>)>>
      [] kind = "lines" -> <<(<<"/", "*">>), text, (<<"*", "/">>)>>


\* rule ids of manifests and reference lists
DigitChars == <<"1", "2", "3", "4", "5", "6", "7", "8", "9">>
RuleIdPool == {<<"r", ".", DigitChars[n]>> : n \in 1..NumRuleIds}
ReferencePool == {RuleReference(v, id, 1) : v \in RefVerbs, id \in RuleIdPool}

\* the lines files are made of
\* `x`: a line of code
CodeLine == <<"x">>
\* `// [a.a]`: a line comment
LineRefLine == <<"/", "/", " ", "[", "a", ".", "a", "]">>
\* `/* [b.b] */`: a block comment on one line
BlockRefLine == <<"/", "*", " ", "[", "b", ".", "b", "]", " ", "*", "/">>
\* `/*`: a block comment opens
OpenLine == <<"/", "*">>
\* `*/`: a block comment closes
CloseLine == <<"*", "/">>
\* `[c.c]`: a bracket, in a comment or not as its neighbours have it
InnerLine == <<"[", "c", ".", "c", "]">>
\* `/* [b.b] */ /* [d.d] */`: two block comments on one line
TwoBlocksLine == <<"/", "*", " ", "[", "b", ".", "b", "]", " ", "*", "/", " ", "/", "*", " ", "[", "d", ".", "d", "]", " ", "*", "/">>
\* `*/ /* [d.d] */`: a block comment closes and another follows
CloseOpenLine == <<"*", "/", " ", "/", "*", " ", "[", "d", ".", "d", "]", " ", "*", "/">>
\* `// x /* [e.e] */`: block comment markers inside a line comment
BlockInLineLine == <<"/", "/", " ", "x", " ", "/", "*", " ", "[", "e", ".", "e", "]", " ", "*", "/">>
\* `/* // [f.f] */`: a line comment marker inside a block comment
LineInBlockLine == <<"/", "*", " ", "/", "/", " ", "[", "f", ".", "f", "]", " ", "*", "/">>
LinePool ==
    {CodeLine, LineRefLine, BlockRefLine, OpenLine,
     CloseLine, InnerLine, TwoBlocksLine, CloseOpenLine,
     BlockInLineLine, LineInBlockLine}

\* what relative paths are made of: two names, the separator, two extensions
PathPieces == {<<"t">>, <<"a">>, <<"/">>, <<".", "r", "s">>, <<".", "m", "d">>}
\* the pieces from the i-th on, written one after the other
RECURSIVE Concat(_, _)
Concat(pieces, i) == IF i > Len(pieces) THEN <<>> ELSE pieces[i] \o Concat(pieces, i + 1)
\* include and exclude patterns:
\*   `**/*.rs` the default include
\*   `**/*.md` the same for another extension
\*   `t/**` a directory and all below, as the default exclude target/**
\*   `a/**` another directory
\*   `*.rs` a suffix after one wildcard
\*   `a*.md` two fragments
\*   `t/*/a` a wildcard between separators
\*   `*` only a wildcard
\*   `a` no wildcard
Patterns ==
    {<<"*", "*", "/", "*", ".", "r", "s">>,
     <<"*", "*", "/", "*", ".", "m", "d">>,
     <<"t", "/", "*", "*">>,
     <<"a", "/", "*", "*">>,
     <<"*", ".", "r", "s">>,
     <<"a", "*", ".", "m", "d">>,
     <<"t", "/", "*", "/", "a">>,
     <<"*">>,
     <<"a">>}

\* names of files and directories of a scanned tree
FileRs == <<"a", ".", "r", "s">>
HiddenRs == <<".", "r", "s">>
FileMd == <<"a", ".", "m", "d">>
TargetDir == <<"t", "a", "r", "g", "e", "t">>
SrcDir == <<"s">>
\* the files a tree is made of, each the components of its path below the root
FilePool ==
    {<<FileRs>>, <<HiddenRs>>, <<FileMd>>, <<TargetDir, FileRs>>, <<SrcDir, FileRs>>,
     <<SrcDir, TargetDir, FileRs>>}
Trees == {files \in SUBSET FilePool : Cardinality(files) <= MaxFiles}
\* patterns of a scan: the two defaults, `s/**` and `*`
ScanPatterns == {DefaultInclude, DefaultExclude, <<"s", "/", "*", "*">>, <<"*">>}
PatternLists == Strings(ScanPatterns, MaxPatterns)

\* rule ids of spec documents
DocIds == {<<"r", ".", DigitChars[n]>> : n \in 1..NumDocIds}
\* a rule definition: its id and its key=value pairs in source order
RuleDefinition(id, attrs) == [id |-> id, attrs |-> attrs]
\* the documents of a spec set of several: definitions without attributes
PlainDocs == Strings({RuleDefinition(id, <<>>) : id \in DocIds}, MaxDefs - 1)
\* key=value pairs: accepted ones and one of each kind of error
AttrPool ==
    {<<"status", "stable">>, <<"status", "invalid">>, <<"level", "must">>,
     <<"level", "invalid">>, <<"since", "1.0">>, <<"tags", "a,b">>,
     <<"unknown", "value">>}
\* definitions with at most one attribute
AttrDefs == {RuleDefinition(id, attrs) : id \in DocIds, attrs \in Strings(AttrPool, 1)}

\* the references of a file of MaxLine lines, and the locations in it
AtPool ==
    {RuleReference(v, <<"r", ".", "1">>, l) : v \in {"Impl", "Verify"}, l \in 1..MaxLine}
Locations ==
    {NoLocation} \cup {LineLocation(l) : l \in 1..MaxLine}
                 \cup {RangeLocation(l1, l2) : l1, l2 \in 1..MaxLine}

\* --threshold values: the default, half and full coverage
Thresholds == {F64(0), F64(50), F64(100)}
\* a rule id no manifest of a run with arguments has
UnknownId == <<"x", ".", "1">>
\* the references of the specs of a run with arguments: one verb, the rule ids
\* of its manifests and the unknown one
MainPool == {RuleReference("Impl", id, 1) : id \in DocIds \cup {UnknownId}}

\* ------------------------------------------------------- the one-shot run

daemon == <<heap, data, dataWriter, update_tx, vfs, config, config_error, version,
            pc, caller, vfs_args, before, lout, lcfg, lov, lver, lnew, ret, engine,
            new_args>>

\* a run applies the extractor to a file, or compute to a manifest and a
\* reference list
OneShotInit ==
    /\ engine = "none"
    /\ new_args = NoArgs
    /\ NoEngine
    /\ report = <<>>
    /\ \/ /\ phase = "extract"
          /\ \E kind \in Layouts, h \in Heads, b \in Bodies, c \in Closers :
                lines = Layout(kind, Bracket(h, b, c))
          /\ references = <<>>
          /\ manifest = {}
          /\ NoMain
          /\ NoPure
       \/ /\ phase = "extract"
          /\ \E kind \in Layouts, lead \in Leads, j1 \in Junk(MaxJunkLen),
                j2 \in Junk(MaxJunkLen - 1) \cup {<<>>}, final \in Finals :
                lines = Layout(kind, MultiText(lead, j1, j2, final))
          /\ references = <<>>
          /\ manifest = {}
          /\ NoMain
          /\ NoPure
       \/ /\ phase = "extract"
          /\ lines \in Strings(LinePool, MaxLines)
          /\ references = <<>>
          /\ manifest = {}
          /\ NoMain
          /\ NoPure
       \/ /\ phase = "compute"
          /\ lines = <<>>
          /\ references \in Strings(ReferencePool, MaxRefs)
          /\ manifest \in SUBSET RuleIdPool
          /\ NoMain
          /\ NoPure
       \/ /\ phase = "compute"
          /\ lines = <<>>
          /\ references \in Strings(MainPool, MaxRefs)
          /\ manifest \in SUBSET DocIds
          /\ threshold \in Thresholds
          /\ check \in BOOLEAN
          /\ pending \in 0..(MaxSpecs - 1)
          /\ all_passing = TRUE
          /\ printed = <<>>
          /\ passing = <<>>
          /\ exit_code = NoExit
          /\ NoPure
       \/ /\ phase = "rules"
          /\ docs \in Strings(PlainDocs, MaxDocs)
          /\ loaded = <<>>
          /\ lines = <<>>
          /\ references = <<>>
          /\ manifest = {}
          /\ NoMain
          /\ NoAt
          /\ NoGlob
          /\ NoScan
       \/ /\ phase = "rules"
          /\ \E doc \in Strings(AttrDefs, MaxDefs) : docs = <<doc>>
          /\ loaded = <<>>
          /\ lines = <<>>
          /\ references = <<>>
          /\ manifest = {}
          /\ NoMain
          /\ NoAt
          /\ NoGlob
          /\ NoScan
       \/ /\ phase = "at"
          /\ references \in Strings(AtPool, MaxRefs)
          /\ location \in Locations
          /\ found = <<>>
          /\ lines = <<>>
          /\ manifest = {}
          /\ NoMain
          /\ NoRules
          /\ NoGlob
          /\ NoScan
       \/ /\ phase = "glob"
          /\ \E pieces \in Strings(PathPieces, MaxPieces) :
                relative_str = Concat(pieces, 1)
          /\ glob_pattern \in Patterns
          /\ matched = <<>>
          /\ lines = <<>>
          /\ references = <<>>
          /\ manifest = {}
          /\ NoMain
          /\ NoRules
          /\ NoAt
          /\ NoScan
       \/ /\ phase \in {"scan", "main_scan"}
          /\ tree \in Trees
          /\ include_patterns \in PatternLists
          /\ exclude_patterns \in PatternLists
          /\ scanned = {}
          /\ lines = <<>>
          /\ references = <<>>
          /\ manifest = {}
          /\ NoMain
          /\ NoRules
          /\ NoAt
          /\ NoGlob

\* scan_directory: extract_rule_references(path, &content)
ExtractCall ==
    /\ phase = "extract"
    /\ references' = ExtractRuleReferences(lines)
    /\ phase' = "extracted"
    /\ UNCHANGED <<daemon, lines, manifest, report, mainvars, pure>>

\* main: CoverageReport::compute(spec_name, &manifest, references)
ComputeCall ==
    /\ phase = "compute"
    /\ report' = Compute(manifest, references)
    /\ phase' = "computed"
    /\ UNCHANGED <<daemon, lines, references, manifest, mainvars, pure>>

\* print_report's summary line: the percentage and the two counts
Summary(r) ==
    [percent |-> CoveragePercent(r), covered |-> Cardinality(r.covered_rules),
     total |-> r.total_rules]

\* main: print_report(&report, ..) and `if !report.is_passing(threshold)`
ReportAndCheck ==
    /\ phase = "computed"
    /\ printed' = <<Summary(report)>>
    /\ passing' = <<IsPassing(report, threshold)>>
    /\ all_passing' = IF ~IsPassing(report, threshold) THEN FALSE ELSE all_passing
    /\ phase' = "checked"
    /\ UNCHANGED <<daemon, lines, references, manifest, report, threshold, check,
                   pending, exit_code, pure>>

\* main: the loop's next spec_config, its manifest loaded and its files
\* scanned; the scan of a later spec finds at most one reference
NextSpec ==
    /\ phase = "checked"
    /\ pending > 0
    /\ pending' = pending - 1
    /\ manifest' \in SUBSET DocIds
    /\ references' \in Strings(MainPool, 1)
    /\ report' = <<>>
    /\ printed' = <<>>
    /\ passing' = <<>>
    /\ phase' = "compute"
    /\ UNCHANGED <<daemon, lines, threshold, check, all_passing, exit_code, pure>>

\* main: the next spec_config's manifest cannot be had (fetch or load fails,
\* both or neither of rules_url and rules_file) or the scan fails: Err(..)
NextSpecErr ==
    /\ phase = "checked"
    /\ pending > 0
    /\ exit_code' = 1
    /\ phase' = "exited"
    /\ UNCHANGED <<daemon, lines, references, manifest, report, threshold, check,
                   all_passing, pending, printed, passing, pure>>

\* main: `if args.check && !all_passing { exit(1) }` and Ok(())
ExitCode == IF check /\ ~all_passing THEN 1 ELSE 0

\* main: the end of the loop
Exit ==
    /\ phase = "checked"
    /\ pending = 0
    /\ exit_code' = ExitCode
    /\ phase' = "exited"
    /\ UNCHANGED <<daemon, lines, references, manifest, report, threshold, check,
                   all_passing, pending, printed, passing, pure>>

\* the rules command: load the spec documents into one manifest
RulesCall ==
    /\ phase = "rules"
    /\ loaded' = LoadSpecs(docs, 1, EmptyMap)
    /\ phase' = "ruled"
    /\ UNCHANGED <<daemon, lines, references, manifest, report, mainvars, docs,
                   location, found, relative_str, glob_pattern, matched,
                   scanvars>>

\* the at command: the file's references at the location
AtCall ==
    /\ phase = "at"
    /\ found' = At(references, location, 1, <<>>)
    /\ phase' = "queried"
    /\ UNCHANGED <<daemon, lines, references, manifest, report, mainvars, docs,
                   loaded, location, relative_str, glob_pattern, matched,
                   scanvars>>

\* is_included / is_excluded: matches_glob(&relative_str, pattern)
GlobCall ==
    /\ phase = "glob"
    /\ matched' = <<MatchesGlob(relative_str, glob_pattern)>>
    /\ phase' = "globbed"
    /\ UNCHANGED <<daemon, lines, references, manifest, report, mainvars, docs,
                   loaded, location, found, relative_str, glob_pattern, scanvars>>

\* scan_directory(root, include_patterns, exclude_patterns)
ScanCall ==
    /\ phase = "scan"
    /\ scanned' = ScanDirectory(tree, include_patterns, exclude_patterns)
    /\ phase' = "scanned"
    /\ UNCHANGED <<daemon, lines, references, manifest, report, mainvars, docs,
                   loaded, location, found, relative_str, glob_pattern, matched,
                   tree, include_patterns, exclude_patterns>>

\* main: the lists of the spec's config, each replaced by its default when
\* empty, handed to scan_directory
MainScan ==
    /\ phase = "main_scan"
    /\ scanned' = ScanDirectory(tree, OrDefault(include_patterns, DefaultInclude),
                                OrDefault(exclude_patterns, DefaultExclude))
    /\ phase' = "main_scanned"
    /\ UNCHANGED <<daemon, lines, references, manifest, report, mainvars, docs,
                   loaded, location, found, relative_str, glob_pattern, matched,
                   tree, include_patterns, exclude_patterns>>

OneShotNext ==
    \/ ScanCall
    \/ MainScan
    \/ GlobCall
    \/ RulesCall
    \/ AtCall
    \/ ExtractCall
    \/ ComputeCall
    \/ ReportAndCheck
    \/ NextSpec
    \/ NextSpecErr
    \/ Exit

SpecOneShot == OneShotInit /\ [][OneShotNext]_vars

\* ---------------------------------------------------------------- claims

AllIdle == \A t \in Tasks : pc[t] = "idle"

\* positions of rebuild() between taking its version number and publishing
VersionedPcs == {"build", "lock_data", "swap_data"}

\* C1: blocking rebuild.  While a rebuild runs its pipeline it holds the write
\* side of the canonical snapshot's gate, and no data() call can return.
C1_BlockingRebuild ==
    \A u \in Tasks :
        pc[u] = "build" =>
            /\ dataWriter = u
            /\ \A t \in Tasks : ~ENABLED DataCall(t)

\* C2: rebuild mutual exclusion.  At most one rebuild is between taking its
\* version number and publishing its snapshot.
C2_RebuildMutualExclusion ==
    Cardinality({t \in Tasks : pc[t] \in VersionedPcs}) <= 1

\* C3: published versions are monotonic.  No step lowers the version of the
\* canonical snapshot, and a data() call never returns a version below the one
\* a data() call that had already returned got.
C3_PublishedVersionMonotonic ==
    [][/\ heap'[data'].version >= heap[data].version
       /\ \A t, u \in Tasks :
            (ret'[t] # ret[t] /\ ret'[t][1] = "data" /\ ret[u][1] = "data") =>
                heap'[ret'[t][2]].version >= heap[ret[u][2]].version]_vars

\* C4: no lost edit at quiescence.  When every call has returned and no rebuild
\* failed (every version handed out belongs to a built snapshot), the published
\* snapshot is the one built from the current overlay.
C4_NoLostEdit ==
    (AllIdle /\ Len(heap) = version) => heap[data].overlay = vfs

\* the handles allocated so far keep their contents in this step
HeapKept == \A h \in DOMAIN heap : h \in DOMAIN heap' /\ heap'[h] = heap[h]

\* C5: no torn snapshot.  Every handle data() returns is the handle in the
\* canonical slot, every snapshot behind a handle was produced whole by one
\* build (construction's, or the pipeline of one rebuild, from that rebuild's
\* config, version and overlay), and no step changes a snapshot behind a handle.
C5_NoTornSnapshot ==
    /\ [](/\ data \in DOMAIN heap
          /\ \A t \in Tasks : ret[t][1] = "data" => ret[t][2] \in DOMAIN heap)
    /\ [][/\ HeapKept
          /\ \A h \in DOMAIN heap' \ DOMAIN heap :
                \E t \in Tasks :
                    /\ pc[t] = "build"
                    /\ heap'[h] = [version |-> lver[t], config |-> lcfg[t],
                                   overlay |-> lov[t]]
          /\ \A t \in Tasks :
                (ret'[t] # ret[t] /\ ret'[t][1] = "data") => ret'[t][2] = data]_vars

\* C5 witness: a task still holds the handle of a snapshot that a later
\* rebuild has replaced in the canonical slot
C5_Witness ==
    \E t \in Tasks :
        /\ ret[t][1] = "data"
        /\ ret[t][2] # data
        /\ heap[ret[t][2]].version < heap[data].version

\* no other task has ever called the engine
Alone(t) == \A u \in Tasks \ {t} : pc[u] = "idle" /\ ret[u] = RetNone

\* C6: a failed rebuild is atomic for published state.  When the pipeline of a
\* rebuild() fails and no other task used the engine, the call returns an error
\* and the canonical snapshot and Engine::version() are what they were when the
\* call was made.
C6_FailedRebuildAtomic ==
    [][\A t \in Tasks :
          (pc[t] = "build" /\ pc'[t] = "idle" /\ caller[t] = "rebuild" /\ Alone(t)) =>
              /\ ret'[t] = RetErr
              /\ data' = before[t][2]
              /\ heap'[data'] = heap[before[t][2]]
              /\ version' = before[t][1]]_vars

\* C7: version equals the count of successful rebuilds.  Whenever every call has
\* returned, Engine::version() and the published snapshot's version both equal
\* the number of successful builds so far, construction included.
C7_VersionCountsSuccesses ==
    AllIdle => (version = Len(heap) /\ heap[data].version = Len(heap))

\* C8: vfs_open / vfs_change / vfs_close update the overlay, then enter
\* rebuild() once whether or not the overlay changed, and return unit; when the
\* pipeline of that rebuild fails, the overlay and the canonical snapshot stay
\* as they are.
C8_VfsAlwaysRebuilds ==
    [][\A t \in Tasks :
          /\ (pc[t] = "vfs" /\ pc'[t] # "vfs") =>
                /\ pc'[t] = "read_config"
                /\ IF caller[t] = "vfs_close"
                   THEN \E p \in Paths : vfs' = [vfs EXCEPT ![p] = Absent]
                   ELSE \E p \in Paths, c \in Contents : vfs' = [vfs EXCEPT ![p] = c]
          /\ (caller[t] \in VfsCallers /\ pc[t] # "vfs" /\ pc'[t] # pc[t]) =>
                pc'[t] # "read_config"
          /\ (caller[t] \in VfsCallers /\ pc[t] # "idle" /\ pc'[t] = "idle") =>
                ret'[t] = RetUnit
          /\ (caller[t] \in VfsCallers /\ pc[t] = "build" /\ pc'[t] = "idle") =>
                /\ vfs' = vfs
                /\ data' = data
                /\ heap' = heap]_vars

\* C8 witness: the only call so far was a vfs_* call whose rebuild failed; it
\* returned unit, the overlay keeps its change and the construction snapshot
\* is still published
C8_Witness ==
    \E t \in Tasks :
        /\ Alone(t)
        /\ pc[t] = "idle"
        /\ ret[t] = RetUnit
        /\ version = Len(heap) + 1
        /\ data = 1
        /\ vfs # heap[data].overlay

BadOutcomes == {"malformed", "unreadable"}

\* C9: config reload policy.  A parseable file gives the pipeline the loaded
\* config, a missing file the default config, both with no error recorded; a
\* malformed or unreadable file gives it the stored config and records an error.
\* No config outcome ends the rebuild before its pipeline.
C9_ConfigReloadPolicy ==
    /\ [](\A t \in Tasks :
            pc[t] \in {"set_error", "clone_overlay", "fetch_add", "build"} =>
                /\ lout[t] \in Outcomes
                /\ lout[t][1] = "parsed" => lcfg[t] = lout[t][2]
                /\ lout[t][1] = "not_found" => lcfg[t] = DefaultConfig)
    /\ [][\A t \in Tasks :
            /\ (pc[t] = "read_config" /\ pc'[t] # "read_config") =>
                  /\ pc'[t] = "set_error"
                  /\ lout'[t][1] \in BadOutcomes => lcfg'[t] = config
            /\ (pc[t] = "set_error" /\ pc'[t] # "set_error") =>
                  /\ pc'[t] = "clone_overlay"
                  /\ lout[t][1] \in BadOutcomes => config_error' # "none"
                  /\ lout[t][1] \notin BadOutcomes => config_error' = "none"
            /\ pc[t] \in {"set_error", "clone_overlay", "fetch_add"} =>
                  /\ lcfg'[t] = lcfg[t]
                  /\ lout'[t] = lout[t]
                  /\ pc'[t] # "idle"
            /\ (pc[t] = "build" /\ pc'[t] = "lock_data") =>
                  heap'[lnew'[t]].config = lcfg[t]]_vars

\* C9 witness: a pipeline is running with a stored, non-default config after a
\* malformed config file, and the error is recorded
C9_Witness ==
    \E t \in Tasks :
        /\ pc[t] = "build"
        /\ lout[t] = Malformed
        /\ lcfg[t] # DefaultConfig
        /\ config_error = "has_errors"

\* C10: overlay isolation.  A vfs_* call waiting to write the overlay can always
\* do so, whatever the other tasks are doing; a rebuild's overlay is the engine's
\* overlay at the moment it was cloned, stays that through later overlay writes,
\* and is the overlay its snapshot is built from.
C10_OverlayIsolation ==
    /\ [](\A u \in Tasks : pc[u] = "vfs" => ENABLED VfsWrite(u))
    /\ [][\A t \in Tasks :
            /\ (pc[t] = "clone_overlay" /\ pc'[t] # "clone_overlay") => lov'[t] = vfs
            /\ (pc[t] = "fetch_add" \/ (pc[t] = "build" /\ pc'[t] = "build")) =>
                  lov'[t] = lov[t]
            /\ (pc[t] = "build" /\ pc'[t] = "lock_data") =>
                  heap'[lnew'[t]].overlay = lov[t]]_vars

\* C10 witness: a pipeline is running on a clone while another task has since
\* written the overlay and gone on into its own rebuild
C10_Witness ==
    \E t, u \in Tasks :
        /\ pc[t] = "build"
        /\ lov[t] # vfs
        /\ caller[u] \in VfsCallers
        /\ pc[u] = "read_config"
        /\ before[u][1] = lver[t]

\* C11: subscription ordering.  No send on the update channel replaces the
\* snapshot it holds by one with a lower version.
C11_SubscriptionOrdering ==
    [][heap'[update_tx'].version >= heap[update_tx].version]_vars

\* C12: subscribers see the latest snapshot.  When no rebuild is in progress,
\* the update channel holds the snapshot that data() returns.
C12_SubscribersSeeLatest ==
    (\A t \in Tasks : pc[t] \in {"idle", "vfs"}) => update_tx = data

\* C13: construction.  Engine::new builds once with an empty overlay and
\* version 1; a deprecated, malformed or unreadable config file gives the
\* default config and a recorded error, a missing one the default config and no
\* error; when the build fails no Engine is made, so every Engine has a
\* published snapshot.
C13_Construction ==
    /\ [](engine = "running" => (data \in DOMAIN heap /\ update_tx \in DOMAIN heap))
    /\ [](engine = "failed" => NoEngine)
    /\ [][(engine = "pending" /\ engine' # "pending") =>
            IF new_args.build = "err"
            THEN engine' = "failed"
            ELSE /\ engine' = "running"
                 /\ heap' = <<[version |-> 1, config |-> config',
                               overlay |-> EmptyOverlay]>>
                 /\ data' = 1
                 /\ update_tx' = 1
                 /\ version' = 1
                 /\ vfs' = EmptyOverlay
                 /\ (new_args.deprecated
                        \/ new_args.outcome[1] \in {"malformed", "unreadable"}) =>
                        (config' = DefaultConfig /\ config_error' # "none")
                 /\ (~new_args.deprecated /\ new_args.outcome[1] = "not_found") =>
                        (config' = DefaultConfig /\ config_error' = "none")]_vars

\* C13 witness: an engine just constructed beside a malformed config file
C13_Witness ==
    /\ engine = "running"
    /\ \A t \in Tasks : pc[t] = "idle" /\ ret[t] = RetNone
    /\ version = 1
    /\ heap = <<[version |-> 1, config |-> DefaultConfig, overlay |-> EmptyOverlay]>>
    /\ config_error = "has_errors"

\* ------------------------------------------------- claims: the extractor

\* the comment text of a one-shot input, read back from its layout
\* the text holds no comment marker
Plain(text) == \A i \in 1..Len(text) : text[i] \notin {"/", "*"}

\* the text of the comment, for a file that is one comment in one of the
\* layouts over a text without comment markers; empty for any other file
TextOf(ls) ==
    IF /\ Len(ls) = 3
       /\ ls[1] = <<"/", "*">>
       /\ ls[3] = <<"*", "/">>
       /\ Plain(ls[2])
    THEN ls[2]
    ELSE IF /\ Len(ls) = 1
            /\ StartsWith(ls[1], <<"/", "/", " ">>)
            /\ Plain(SubSeq(ls[1], 4, Len(ls[1])))
    THEN SubSeq(ls[1], 4, Len(ls[1]))
    ELSE IF /\ Len(ls) = 1
            /\ Len(ls[1]) >= 6
            /\ StartsWith(ls[1], <<"/", "*", " ">>)
            /\ EndsWith(ls[1], <<" ", "*", "/">>)
            /\ Plain(SubSeq(ls[1], 4, Len(ls[1]) - 3))
    THEN SubSeq(ls[1], 4, Len(ls[1]) - 3)
    ELSE <<>>

Extracted == phase = "extracted"

\* the text is one bracket `[` head body `]` over a body without space or bracket
IsBracketOf(text, head) ==
    /\ Len(text) >= Len(head) + 2
    /\ StartsWith(text, <<"[">> \o head)
    /\ text[Len(text)] = "]"
    /\ \A i \in (Len(head) + 2)..(Len(text) - 1) : text[i] \notin {" ", "[", "]"}
BodyOf(text, head) == SubSeq(text, Len(head) + 2, Len(text) - 1)

\* the RuleId grammar [a-z][a-z0-9-]*(\.[a-z0-9-]+)+
IsRuleId(w) ==
    /\ Len(w) >= 3
    /\ w[1] \in Lower
    /\ \A i \in 1..Len(w) : w[i] \in Lower \cup Digit \cup {"-", "."}
    /\ \E i \in 1..Len(w) : w[i] = "."
    /\ w[Len(w)] # "."
    /\ \A i \in 1..(Len(w) - 1) : ~(w[i] = "." /\ w[i + 1] = ".")

Upper == {"A", "B", "C", "D", "E", "F", "G", "H", "I", "J", "K", "L", "M",
          "N", "O", "P", "Q", "R", "S", "T", "U", "V", "W", "X", "Y", "Z"}

\* the written forms of a reference: the five verbs and the bare bracket
Forms == RefVerbs \cup {"Legacy"}
HeadOf(form) == IF form = "Legacy" THEN <<>> ELSE AsStr(form) \o <<" ">>
VerbOf(form) == IF form = "Legacy" THEN "Impl" ELSE form

\* C14: a comment that holds `[impl s]`, `[verify s]`, `[depends s]`,
\* `[related s]`, `[define s]` or `[s]` for a valid rule id s yields exactly one
\* reference, with rule_id s and the written verb (Impl for the bare form).
C14_ValidReferenceExtracted ==
    Extracted =>
        \A form \in Forms :
            LET text == TextOf(lines)
                body == BodyOf(text, HeadOf(form))
            IN (IsBracketOf(text, HeadOf(form)) /\ IsRuleId(body)) =>
                  /\ Len(references) = 1
                  /\ references[1].rule_id = body
                  /\ references[1].verb = VerbOf(form)

\* C14 witness: `[define a.-1]` in a block comment over three lines gave one
\* Define reference
C14_Witness ==
    /\ Extracted
    /\ lines = Layout("lines", Bracket(AsStr("Define") \o <<" ">>,
                                       <<"a", ".", "-", "1">>, <<"]">>))
    /\ Len(references) = 1
    /\ references[1].verb = "Define"

\* a token without a dot, or with a leading or trailing dot, or with an
\* uppercase letter
BadToken(w) ==
    /\ Len(w) > 0
    /\ \/ \A i \in 1..Len(w) : w[i] # "."
       \/ w[1] = "."
       \/ w[Len(w)] = "."
       \/ \E i \in 1..Len(w) : w[i] \in Upper

\* C15: for a token t without a dot, or with a leading or trailing dot, or with
\* an uppercase letter, neither `[t]` nor `[v t]` for a known verb v yields a
\* reference.
C15_BadTokenNoReference ==
    Extracted =>
        \A form \in Forms :
            LET text == TextOf(lines)
            IN (IsBracketOf(text, HeadOf(form)) /\ BadToken(BodyOf(text, HeadOf(form))))
                  => references = <<>>

\* C16: every rule_id the extractor emits matches the RuleId grammar and is the
\* bracket's text as written.
C16_RuleIdGrammar ==
    Extracted =>
        \A i \in 1..Len(references) :
            /\ IsRuleId(references[i].rule_id)
            /\ \A form \in Forms :
                  IsBracketOf(TextOf(lines), HeadOf(form)) =>
                      references[i].rule_id = BodyOf(TextOf(lines), HeadOf(form))

\* position of the first space of the text, 0 if none
RECURSIVE FirstSpace(_, _)
FirstSpace(text, i) ==
    IF i > Len(text) THEN 0
    ELSE IF text[i] = " " THEN i ELSE FirstSpace(text, i + 1)

\* C17: a bracket `[w r]` whose first word w is none of the five verbs yields
\* no reference, whatever rule id r is.
C17_UnknownVerbNoFallback ==
    Extracted =>
        LET text == TextOf(lines)
            sp == FirstSpace(text, 1)
            w == SubSeq(text, 2, sp - 1)
        IN (/\ sp > 2
            /\ \A i \in 1..Len(w) : w[i] \notin {"[", "]"}
            /\ IsBracketOf(text, w \o <<" ">>)
            /\ w \notin {AsStr(v) : v \in RefVerbs}
            /\ IsRuleId(BodyOf(text, w \o <<" ">>)))
               => references = <<>>

\* C17 witness: `[a.a a.-1]`, a rule id in the first word's place and another
\* after it, gave nothing
C17_Witness ==
    /\ Extracted
    /\ lines = Layout("line", Bracket(<<"a", ".", "a", " ">>,
                                      <<"a", ".", "-", "1">>, <<"]">>))
    /\ references = <<>>

\* C18: extraction returns a result for every input; a well-formed reference
\* that ends a comment is extracted whatever brackets stand before it, and the
\* references of a comment come in the order they are written.
C18_TotalAndIndependent ==
    /\ phase = "extract" =>
          LET result == ExtractRuleReferences(lines)
          IN \A i \in 1..Len(result) :
                result[i].verb \in RefVerbs /\ result[i].line \in 1..Len(lines)
    /\ Extracted =>
          LET text == TextOf(lines)
              n == Len(references)
          IN /\ EndsWith(text, LegacyRef) =>
                   (n >= 1 /\ references[n].verb = "Impl"
                           /\ references[n].rule_id = <<"a", ".", "a">>)
             /\ EndsWith(text, VerifyRef) =>
                   (n >= 1 /\ references[n].verb = "Verify"
                           /\ references[n].rule_id = <<"a", ".", "1">>)
             /\ (StartsWith(text, DependsRef) /\ Len(text) > Len(DependsRef)) =>
                   (n >= 2 /\ references[1].verb = "Depends"
                           /\ references[1].rule_id = <<"a", ".", "-">>)

\* C18 witness: `[depends a.-][x C[impl [a.a]` gave the two references in order
C18_Witness ==
    /\ Extracted
    /\ lines = Layout("line",
                   MultiText(DependsRef, Bracket(<<"x", " ">>, <<"C">>, <<>>),
                             Bracket(<<"i", "m", "p", "l", " ">>, <<>>, <<>>),
                             LegacyRef))
    /\ Len(references) = 2
    /\ references[1].verb = "Depends"
    /\ references[2].rule_id = <<"a", ".", "a">>

\* ------------------------------------------- claims: the coverage report

Computed == phase = "computed"

\* the references of a list that pass a test, in their order
Matching(refs, Test(_)) == SelectSeq(refs, Test)

\* C19: covered_rules is the set of manifest rule ids that some reference
\* names, uncovered_rules is the rest of the manifest's ids, the two are
\* disjoint, together they are the manifest's ids, and their sizes add up to
\* total_rules.
C19_CoveragePartition ==
    Computed =>
        /\ report.covered_rules =
              {id \in manifest : \E i \in 1..Len(references) : references[i].rule_id = id}
        /\ report.uncovered_rules = manifest \ report.covered_rules
        /\ report.covered_rules \cap report.uncovered_rules = {}
        /\ report.covered_rules \cup report.uncovered_rules = manifest
        /\ Cardinality(report.covered_rules) + Cardinality(report.uncovered_rules)
              = report.total_rules

\* C19 witness: a report with a covered rule, an uncovered rule and a reference
\* to a rule the manifest does not have
C19_Witness ==
    /\ Computed
    /\ report.covered_rules # {}
    /\ report.uncovered_rules # {}
    /\ report.invalid_references # <<>>

\* total length of the vectors of a map, over the given keys
RECURSIVE TotalLen(_, _)
TotalLen(map, keys) ==
    IF keys = {} THEN 0
    ELSE LET k == CHOOSE x \in keys : TRUE
         IN Len(map[k]) + TotalLen(map, keys \ {k})

\* C20: every input reference lands in exactly one place.  Those whose rule_id
\* the manifest lacks are invalid_references, in their input order; the others
\* are indexed under their rule_id, and under their verb and rule_id, as often
\* as they occur; indexed and invalid references add up to the input's length.
C20_ReferencePartition ==
    Computed =>
        LET Invalid(r) == r.rule_id \notin manifest
            by_rule == report.references_by_rule
            by_verb == report.references_by_verb
        IN /\ report.invalid_references = Matching(references, Invalid)
           /\ DOMAIN by_rule =
                 {references[i].rule_id : i \in 1..Len(references)} \cap manifest
           /\ \A id \in DOMAIN by_rule :
                 LET Of(r) == r.rule_id = id
                 IN by_rule[id] = Matching(references, Of)
           /\ DOMAIN by_verb =
                 {references[i].verb :
                     i \in {j \in 1..Len(references) : ~Invalid(references[j])}}
           /\ \A v \in DOMAIN by_verb :
                 /\ DOMAIN by_verb[v] =
                       {references[i].rule_id :
                           i \in {j \in 1..Len(references) :
                                     ~Invalid(references[j]) /\ references[j].verb = v}}
                 /\ \A id \in DOMAIN by_verb[v] :
                       LET Of(r) == r.rule_id = id /\ r.verb = v
                       IN by_verb[v][id] = Matching(references, Of)
           /\ TotalLen(by_rule, DOMAIN by_rule) + Len(report.invalid_references)
                 = Len(references)

\* C20 witness: two references to one rule under different verbs are both
\* indexed under that rule, one under each verb
C20_Witness ==
    /\ Computed
    /\ \E id \in manifest :
          /\ id \in DOMAIN report.references_by_rule
          /\ Len(report.references_by_rule[id]) = 2
          /\ Cardinality(DOMAIN report.references_by_verb) = 2

\* ------------------------------------------- claims: passing and exit status

Checked == phase = "checked"

\* the manifest's rule ids that some reference of the list names
Named(rules, refs) == {id \in rules : \E i \in 1..Len(refs) : refs[i].rule_id = id}

\* some reference of the list names a rule the manifest lacks
SomeInvalid(rules, refs) == \E i \in 1..Len(refs) : refs[i].rule_id \notin rules

\* 100 * |named| / |rules| is at least min, with an empty manifest at 100
Reaches(rules, refs, min) ==
    IF rules = {} THEN 100 * min[2] >= min[1]
    ELSE 100 * Cardinality(Named(rules, refs)) * min[2] >= min[1] * Cardinality(rules)

C22_CoveragePercent ==
    Checked =>
        LET percent == printed[1].percent
            InManifest(r) == r.rule_id \in manifest
        IN /\ manifest = {} => F64Eq(percent, F64(100))
           /\ manifest # {} =>
                 percent[1] * Cardinality(manifest)
                    = 100 * Cardinality(Named(manifest, references)) * percent[2]
           /\ F64Ge(percent, F64(0))
           /\ F64Ge(F64(100), percent)
           /\ F64Eq(percent,
                    CoveragePercent(Compute(manifest, SelectSeq(references, InManifest))))

\* C22 witness: two rules, one covered, next to an invalid reference: 50
C22_Witness ==
    /\ Checked
    /\ Cardinality(manifest) = 2
    /\ Cardinality(Named(manifest, references)) = 1
    /\ SomeInvalid(manifest, references)
    /\ F64Eq(printed[1].percent, F64(50))

\* C23: a run that has printed the report of a spec with an invalid reference
\* or with a coverage percentage below the threshold ends with a non-zero status.
C23_ExitStatus ==
    (/\ phase = "exited"
     /\ printed # <<>>
     /\ \/ SomeInvalid(manifest, references)
        \/ ~Reaches(manifest, references, threshold))
        => exit_code # 0

\* ------------------------------------------- claims: the spec documents

Ruled == phase = "ruled"

\* the places of the spec set's definitions: <<document, position>>
Places(ds) == {pl \in (1..Len(ds)) \X (1..MaxDefs) : pl[2] <= Len(ds[pl[1]])}

\* some rule id is defined at two places of the spec set
DefinedTwice(ds) ==
    \E p1, p2 \in Places(ds) : p1 # p2 /\ ds[p1[1]][p1[2]].id = ds[p2[1]][p2[2]].id

\* the error kind the claim names for a key=value pair, "none" if none
Complaint(attr) ==
    IF attr[1] \notin {"status", "level", "since", "until", "tags"}
    THEN "unknown attribute"
    ELSE IF attr[1] = "status" /\ attr[2] \notin {"stable", "draft", "deprecated"}
    THEN "invalid status"
    ELSE IF attr[1] = "level" /\ attr[2] \notin {"must", "should", "may"}
    THEN "invalid level"
    ELSE "none"

\* the definition has an attribute the claim names an error for
BadDefinition(def) == \E k \in 1..Len(def.attrs) : Complaint(def.attrs[k]) # "none"

C25_MetadataErrorsAbort ==
    (Ruled /\ Len(docs) = 1) =>
        \A i \in 1..Len(docs[1]) :
            (/\ BadDefinition(docs[1][i])
             /\ \A j \in 1..(i - 1) : ~BadDefinition(docs[1][j]))
                => loaded = Err(Complaint(docs[1][i].attrs[1]))

\* C25 witness: a valid definition followed by one with a bad level: no
\* definitions, the error is the level's
C25_Witness ==
    /\ Ruled
    /\ Len(docs) = 1
    /\ Len(docs[1]) = 2
    /\ docs[1][1].id # docs[1][2].id
    /\ ~BadDefinition(docs[1][1])
    /\ docs[1][2].attrs = <<(<<"level", "invalid">>)>>
    /\ loaded = Err("invalid level")

\* ------------------------------------------------ claims: the at query

Queried == phase = "queried"

\* C26: for a line L the at query returns exactly the file's references whose
\* line is L, for a range L1-L2 those whose line lies in [L1, L2], without a
\* location all of them, each in extraction order; every reference returned is
\* one of those extracted.
C26_AtQuery ==
    Queried =>
        LET OnLine(r) == r.line = location[2]
            InRange(r) == location[2] <= r.line /\ r.line <= location[3]
        IN /\ location[1] = "line" => found = SelectSeq(references, OnLine)
           /\ location[1] = "range" => found = SelectSeq(references, InRange)
           /\ location = NoLocation => found = references
           /\ \A i \in 1..Len(found) :
                 \E j \in 1..Len(references) : found[i] = references[j]

\* C26 witness: of references on lines 2 and 3 the range 1-2 returns the first
C26_Witness ==
    /\ Queried
    /\ location = RangeLocation(1, 2)
    /\ Len(references) = 2
    /\ references[1].line = 2
    /\ references[2].line = 3
    /\ found = <<references[1]>>

\* ------------------------------------- claims: brackets, lines and passes

\* C27: a comment whose only bracket opens with a known verb, `[v X`, yields a
\* reference only when X is as a whole a valid rule id with `]` right after it.
C27_CompleteRuleId ==
    Extracted =>
        \A v \in RefVerbs :
            LET text == TextOf(lines)
                head == <<"[">> \o AsStr(v) \o <<" ">>
            IN (/\ StartsWith(text, head)
                /\ \A i \in 2..Len(text) : text[i] # "["
                /\ references # <<>>)
                  => /\ text[Len(text)] = "]"
                     /\ IsRuleId(SubSeq(text, Len(head) + 1, Len(text) - 1))

\* the two characters of the line at the column
TwoAt(line, col) == IF col < Len(line) THEN <<line[col], line[col + 1]>> ELSE <<>>

\* the comments of a file read character by character from line n, column
\* col: outside a comment `//` opens a line comment up to the end of its line
\* and `/*` a block comment up to the next `*/`; each comment is its text and
\* the line it opened on
RECURSIVE Comments(_, _, _, _, _, _, _)
Comments(ls, n, col, in_block, start, text, acc) ==
    IF n > Len(ls) THEN acc
    ELSE IF col > Len(ls[n])
    THEN Comments(ls, n + 1, 1, in_block, start,
                  IF in_block THEN Append(text, "\n") ELSE text, acc)
    ELSE IF in_block
    THEN IF TwoAt(ls[n], col) = <<"*", "/">>
         THEN Comments(ls, n, col + 2, FALSE, 0, <<>>,
                       Append(acc, [text |-> text, line |-> start, kind |-> "block"]))
         ELSE Comments(ls, n, col + 1, TRUE, start, Append(text, ls[n][col]), acc)
    ELSE IF TwoAt(ls[n], col) = <<"/", "/">>
    THEN Comments(ls, n + 1, 1, FALSE, 0, <<>>,
                  Append(acc, [text |-> SubSeq(ls[n], col, Len(ls[n])), line |-> n,
                               kind |-> "line"]))
    ELSE IF TwoAt(ls[n], col) = <<"/", "*">>
    THEN Comments(ls, n, col + 2, TRUE, n, <<>>, acc)
    ELSE Comments(ls, n, col + 1, FALSE, 0, <<>>, acc)

\* C28: every reference found in a comment of the file is extracted: one of a
\* line comment with the number of its own line, one of a block comment with
\* the number of the line the block comment opened on, for every block comment
\* of the file.
C28_LineAttribution ==
    Extracted =>
        LET comments == Comments(lines, 1, 1, FALSE, 0, <<>>, <<>>)
        IN \A c \in 1..Len(comments) :
              LET held == ExtractReferencesFromText(comments[c].text, 1,
                                                    comments[c].line, <<>>)
              IN \A k \in 1..Len(held) :
                    \E i \in 1..Len(references) : references[i] = held[k]

\* number of `[` in the file from line n on
RECURSIVE Brackets(_, _)
Brackets(ls, n) ==
    IF n > Len(ls) THEN 0
    ELSE Cardinality({i \in 1..Len(ls[n]) : ls[n][i] = "["}) + Brackets(ls, n + 1)

\* C29: a file yields at most one reference for each of its brackets.
C29_NoDoubleExtraction ==
    Extracted => Len(references) <= Brackets(lines, 1)

\* ----------------------------------------------------- claims: the globs

Globbed == phase = "globbed"

\* the fragments occur in the path one after the other, none overlapping the
\* one before: starts[k] is where the k-th fragment is found
InOrder(p, parts) ==
    \E starts \in [1..Len(parts) -> 1..(Len(p) + 1)] :
        /\ \A k \in 1..Len(parts) :
              /\ starts[k] + Len(parts[k]) - 1 <= Len(p)
              /\ SubSeq(p, starts[k], starts[k] + Len(parts[k]) - 1) = parts[k]
        /\ \A k \in 1..(Len(parts) - 1) : starts[k] + Len(parts[k]) <= starts[k + 1]

\* C30: `**/*.ext` matches a path exactly when the path ends with `.ext`,
\* `dir/**` exactly when it starts with `dir`, and any other pattern exactly
\* when its fragments between the `*` occur in the path in order without
\* overlapping.
C30_GlobSemantics ==
    Globbed =>
        LET any == <<"*", "*", "/", "*">>
            ext == SubSeq(glob_pattern, Len(any) + 1, Len(glob_pattern))
            dir == SubSeq(glob_pattern, 1, Len(glob_pattern) - 3)
        IN IF StartsWith(glob_pattern, any \o <<".">>)
           THEN matched = <<EndsWith(relative_str, ext)>>
           ELSE IF EndsWith(glob_pattern, <<"/", "*", "*">>)
           THEN matched = <<StartsWith(relative_str, dir)>>
           ELSE matched =
                   <<InOrder(relative_str, SplitStar(glob_pattern, 1, <<>>, <<>>))>>

\* ------------------------------------------- claims: verbs and coverage

\* C38: a manifest rule that has a reference is covered whatever the verbs of
\* its references are: for each of the five verbs, a rule all of whose
\* references carry that verb is in covered_rules and not in uncovered_rules.
C38_EveryVerbCovers ==
    Computed =>
        \A v \in RefVerbs, id \in manifest :
            (/\ \E i \in 1..Len(references) : references[i].rule_id = id
             /\ \A i \in 1..Len(references) :
                   references[i].rule_id = id => references[i].verb = v)
                => id \in report.covered_rules /\ id \notin report.uncovered_rules

\* C38 witness: a rule of the manifest whose references are all `related`
\* references is covered, beside a rule with a reference of another verb
C38_Witness ==
    /\ Computed
    /\ Len(references) = 2
    /\ references[1].verb = "Related"
    /\ references[2].verb # "Related"
    /\ references[1].rule_id # references[2].rule_id
    /\ references[1].rule_id \in manifest
    /\ references[1].rule_id \in report.covered_rules

\* --------------------------------------------- claims: the version counter

\* the version numbers rebuild() invocations hold at the moment
Taken == {lver[t] : t \in {u \in Tasks : lver[u] # 0}}

\* C35: unique version numbers.  Every rebuild() takes the value after the
\* counter's, which is above every version taken before, whether it was built
\* or not; so no two invocations in progress hold the same version, no snapshot
\* ever built carries the version of another, and a version waiting for its
\* pipeline is not the version of any snapshot.
C35_UniqueVersions ==
    /\ [](/\ \A t, u \in Tasks : (t # u /\ lver[t] # 0) => lver[t] # lver[u]
          /\ \A g, h \in DOMAIN heap : g # h => heap[g].version # heap[h].version
          /\ \A t \in Tasks : pc[t] = "build" =>
                \A h \in DOMAIN heap : heap[h].version # lver[t]
          /\ \A v \in Taken : v <= version
          /\ \A h \in DOMAIN heap : heap[h].version <= version)
    /\ [][\A t \in Tasks :
            /\ (pc[t] = "fetch_add" /\ pc'[t] # "fetch_add") =>
                  (lver'[t] = version + 1 /\ version' = version + 1)
            /\ (pc[t] = "build" /\ pc'[t] = "lock_data") =>
                  heap'[lnew'[t]].version = lver[t]
            /\ pc[t] # "fetch_add" => (lver'[t] = lver[t] \/ pc'[t] = "idle")]_vars

\* C35 witness: two rebuilds run their pipelines at the same time, each with
\* its own version
C35_Witness ==
    \E t, u \in Tasks :
        /\ t # u
        /\ pc[t] = "build"
        /\ pc[u] = "build"
        /\ lver[t] # lver[u]

\* C36: the counter bounds the snapshot.  The version of the published snapshot
\* is at most Engine::version().
C36_CounterBoundsSnapshot ==
    heap[data].version <= version

\* C36 witness: a rebuild has published its snapshot and a later one has taken
\* its version and not published
C36_Witness ==
    /\ heap[data].version > heap[1].version
    /\ heap[data].version < version

\* ------------------------------------- claims: configuration and overlay

\* C33: configuration state on a failed rebuild.  rebuild() overwrites the
\* config error with the outcome of its own config load and only then goes on
\* to the overlay, the counter and the pipeline; a failing pipeline leaves the
\* config error and the stored config as they are; the stored config changes
\* only in the step after a rebuild has put its snapshot into the canonical
\* slot, and becomes that rebuild's config.
C33_ConfigOnFailedRebuild ==
    [][/\ \A t \in Tasks :
            /\ (pc[t] = "set_error" /\ pc'[t] # "set_error") =>
                  /\ pc'[t] = "clone_overlay"
                  /\ lout[t][1] = "malformed" => config_error' = "has_errors"
                  /\ lout[t][1] = "unreadable" => config_error' = "not_readable"
                  /\ lout[t][1] \in {"parsed", "not_found"} => config_error' = "none"
            /\ (pc[t] # "build" /\ pc'[t] = "build") => pc[t] = "fetch_add"
            /\ (pc[t] # "fetch_add" /\ pc'[t] = "fetch_add") => pc[t] = "clone_overlay"
            /\ (pc[t] = "build" /\ pc'[t] = "idle") =>
                  /\ ret'[t] \in {RetErr, RetUnit}
                  /\ config_error' = config_error
                  /\ config' = config
            /\ (pc[t] # "set_config" /\ pc'[t] = "set_config") =>
                  (pc[t] = "swap_data" /\ data' = lnew[t])
       /\ config_error' # config_error => \E t \in Tasks : pc[t] = "set_error"
       /\ config' # config =>
            \E t \in Tasks :
                /\ pc[t] = "set_config"
                /\ pc'[t] = "idle"
                /\ config' = lcfg[t]]_vars

\* C33 witness: the only call so far was a rebuild() that met a malformed
\* config file and then failed: the error is recorded and the engine still has
\* the config it was constructed with
C33_Witness ==
    \E t \in Tasks :
        /\ Alone(t)
        /\ pc[t] = "idle"
        /\ ret[t] = RetErr
        /\ config_error = "has_errors"
        /\ config # DefaultConfig
        /\ config = heap[data].config

\* the overlay with the entry of path p set to entry, every other entry kept
WithEntry(overlay, p, entry) ==
    [q \in Paths |-> IF q = p THEN entry ELSE overlay[q]]

\* C32: overlay contents.  Every step that changes the overlay is the write of
\* one vfs_* call, made in one piece under the overlay gate: vfs_open and
\* vfs_change set the entry of their path to their content, whether or not the
\* path had an entry, vfs_close removes the entry of its path and changes
\* nothing when there is none; no other step of any call (data, rebuild, a
\* failing pipeline) changes the overlay.  So the overlay is the result of the
\* writes in the order they were made.
C32_OverlayContents ==
    [][/\ \A t \in Tasks :
            /\ (pc[t] = "idle" /\ pc'[t] = "vfs") =>
                  /\ vfs_args'[t][1] \in Paths
                  /\ caller'[t] # "vfs_close" => vfs_args'[t][2] \in Contents
            /\ (pc[t] = "vfs" /\ pc'[t] = "vfs") => vfs_args'[t] = vfs_args[t]
            /\ (pc[t] = "vfs" /\ pc'[t] # "vfs") =>
                  /\ caller[t] \in {"vfs_open", "vfs_change"} =>
                        vfs' = WithEntry(vfs, vfs_args[t][1], vfs_args[t][2])
                  /\ caller[t] = "vfs_close" =>
                        vfs' = WithEntry(vfs, vfs_args[t][1], Absent)
                  /\ (caller[t] = "vfs_close" /\ vfs[vfs_args[t][1]] = Absent) =>
                        vfs' = vfs
       /\ vfs' # vfs => \E t \in Tasks : pc[t] = "vfs" /\ pc'[t] # "vfs"]_vars

\* C32 witness: a path that was open when the published snapshot was built has
\* been written again with another content, and the rebuild of the second
\* call then failed
C32_Witness ==
    \E t \in Tasks, p \in Paths :
        /\ pc[t] = "idle"
        /\ ret[t] = RetUnit
        /\ \A u \in Tasks \ {t} : pc[u] = "idle"
        /\ heap[data].overlay[p] \in Contents
        /\ vfs[p] \in Contents
        /\ vfs[p] # heap[data].overlay[p]
        /\ version > Len(heap)

\* ------------------------------------------ claims: deprecated config files

\* no rebuild() has reached its write of the config error
NoRebuildYet ==
    /\ version = heap[1].version
    /\ \A t \in Tasks : pc[t] \in {"idle", "vfs", "read_config", "set_error"}

\* C37: the deprecated-config check runs only in Engine::new.  An engine made
\* beside a deprecated config file reports the deprecation until the first
\* rebuild() writes the config error; that write, and every later one, records
\* only the outcome of that rebuild's load of the config path (none for a
\* parseable or a missing file), so the deprecation is never reported again
\* although the deprecated file is still there.
C37_DeprecatedOnlyAtNew ==
    /\ []((engine = "running" /\ new_args.deprecated /\ NoRebuildYet) =>
              config_error = "deprecated")
    /\ [](config_error = "deprecated" =>
              (engine = "running" /\ new_args.deprecated /\ NoRebuildYet))
    /\ [][\A t \in Tasks :
            (pc[t] = "set_error" /\ pc'[t] # "set_error") =>
                /\ lout[t][1] \in {"parsed", "not_found"} => config_error' = "none"
                /\ lout[t][1] = "malformed" => config_error' = "has_errors"
                /\ lout[t][1] = "unreadable" => config_error' = "not_readable"
                /\ new_args' = new_args]_vars

\* C37 witness: an engine made beside a deprecated config file has run one
\* rebuild() that found the config path parseable or missing; no error is
\* reported and the deprecated file is still there
C37_Witness ==
    \E t \in Tasks :
        /\ engine = "running"
        /\ new_args.deprecated
        /\ Alone(t)
        /\ pc[t] = "idle"
        /\ ret[t][1] = "ok"
        /\ config_error = "none"

\* ------------------------------------------------------ claims: the gates

\* task t can go on, or waits for the snapshot gate while its holder can go on
CanProceed(t) ==
    \/ ENABLED Step(t)
    \/ /\ pc[t] = "lock_data"
       /\ dataWriter \in Tasks \ {t}
       /\ ENABLED Step(dataWriter)

\* the positions of a call in the order the code goes through them
CallOrder ==
    <<"vfs", "read_config", "set_error", "clone_overlay", "fetch_add", "build",
      "lock_data", "swap_data", "set_config", "idle">>
Position(at) == CHOOSE i \in 1..Len(CallOrder) : CallOrder[i] = at

Selected(f, includes, excludes) ==
    /\ HasRsExtension(f[Len(f)])
    /\ \/ includes = <<>>
       \/ \E k \in 1..Len(includes) : MatchesGlob(RelativeStr(f, 1), includes[k])
    /\ \A n \in 1..Len(f), k \in 1..Len(excludes) :
          ~MatchesGlob(RelativeStr(SubSeq(f, 1, n), 1), excludes[k])

====
